---- MODULE Spec2Model ----
(***************************************************************************)
(* The npm fetcher of bitbake (lib/bb/fetch2/npm.py): the lockfile walk    *)
(* foreach_dependencies and the single-package fetch Npm.download, as      *)
(* state machines.                                                         *)
(*                                                                         *)
(*   SpecWalk : one run of foreach_dependencies over a shrinkwrap tree     *)
(*   Spec     : runs of Npm.need_update / Npm.download on one destination  *)
(*   SpecMat  : fetch_dependencies / unpack_dependencies over a lockfile   *)
(*   SpecInit : Npm.urldata_init on the url of one Fetch                   *)
(*   SpecUnpack : the extraction of one archive                            *)
(*   SpecPair : two single-package fetches sharing the datastore           *)
(*                                                                         *)
(* and the recipe handlers of recipetool (scripts/lib/recipetool/          *)
(* create_angular.py, create_npm.py):                                      *)
(*                                                                         *)
(*   SpecRecipe : the handlers run in priority order on one source tree    *)
(***************************************************************************)
EXTENDS Naturals, Sequences, FiniteSets

VARIABLES
    \* ---- foreach_dependencies ----
    shrinkwrap,   \* shrinkwrap.get("dependencies", {}): ordered forest
    callback,     \* "none" (callback is None) or "given"
    stack,        \* the call stack of walk_deps, innermost frame last
    visits,       \* the callback invocations so far, in order
    result,       \* the list foreach_dependencies returns
    wpc,          \* "idle" | "walking" | "done"
    \* ---- Npm.need_update / Npm.download ----
    ud,           \* the url data: [name, version]
    nonet,        \* BB_NO_NETWORK is set in d
    pc,           \* the position of download
    runs,         \* how many times download was called
    view_string,  \* what `npm view` printed in this call, <<>> before
    view,         \* <<the record _run_npm_view returned>>, <<>> before
    file,         \* the file at ud.localpath: [exists, data]
    err,          \* the exception this call raised, None if none
    warned,       \* bb.warn was called in this call
    netlog,       \* this call's network checks and network commands
    xfer,         \* <<this call's wget transfer>>, <<>> before
    prev,         \* <<the previous call's wget transfer>>
    atstart,      \* the file when this call started
    atreturn,     \* <<the file when wget returned>>, <<>> before
    consulted,    \* the verification schemes this call evaluated
    need_upd,     \* what need_update last returned ("True" | "False"), or None
    errmsg,       \* <<the message of the exception raised>> where it has one
    \* ---- fetch_dependencies / unpack_dependencies ----
    job,          \* the calls still to make ("fetch" | "unpack"), current first
    lockarg,      \* the shrinkwrap_file argument: "none" | "given"
    srcfile,      \* ${S}/npm-shrinkwrap.json exists
    extfile,      \* NPM_SHRINKWRAP: "unset" | "missing" | "exists"
    chosen,       \* the lockfile parsed: None | "arg" | "src" | "ext"
    npm_registry, \* NPM_REGISTRY in d: [scheme, host]
    wiped,        \* unpack_dependencies has removed the two directories
    cur,          \* <<the node being handled, and ud.registry of its Fetch>>
    hstep,        \* the step of the handler being run, 0 outside a handler
    dldir,        \* the tarballs in DL_DIR
    cache,        \* the tarballs added to NPM_CACHE_DIR
    modules,      \* what is extracted under ${S}/node_modules
    events,       \* the handler steps of this call, in order
    merr,         \* <<the exception this call raised>>, <<>> if none
    \* ---- Npm.urldata_init ----
    req,          \* the url of a Fetch: [host, parm]
    fdata,        \* <<what urldata_init gave: [err, ud]>>, <<>> before the call
    \* ---- Npm.unpack / unpack_dependency ----
    archive,      \* the tarball's members: member name -> content
    site,         \* who extracts: "unpack" | "unpack_dependency"
    workdir,      \* the files under the directory tar runs in: name -> content
    upc,          \* "idle" | "ready" | "done"
    \* ---- two Fetch objects on one d ----
    preq,         \* the url of each: [host, name, version]
    pst,          \* each one's state: [pc, ud, view, err, warned, out]
    files,        \* the files of DL_DIR: path -> [exists, data]
    env,          \* what each registry answers to npm view
    lastinit,     \* whose urldata_init set NPM_REGISTRY last, 0 if nobody's
    \* ---- recipetool: the Angular and npm recipe handlers ----
    handlers,     \* the (handler, priority) pairs, in registration order
    hidx,         \* the handler to run next, in priority order; 0 when idle
    srctree,      \* the source tree: [angular, package, shrinkwrap, node_modules]
    classes,      \* the classes argument of process
    lines_before, \* the lines_before argument: a list of [name, value]
    handled,      \* the handled argument of process
    extravalues,  \* the extravalues argument: key -> value
    cmds,         \* the npm commands run, in order
    returned,     \* what each process call returned, in order
    rexit,        \* <<how the run was cut short>>, <<>> if it was not
    start         \* handled, classes and extravalues before the first handler

walkvars == <<shrinkwrap, callback, stack, visits, result, wpc>>

dlvars == <<ud, nonet, pc, runs, view_string, view, file, err, warned, netlog,
            xfer, prev, atstart, atreturn, consulted, need_upd, errmsg>>

matvars == <<job, lockarg, srcfile, extfile, chosen, npm_registry,
             wiped, cur, hstep, dldir, cache, modules, events, merr>>

initvars == <<req, fdata>>

unpvars == <<archive, site, workdir, upc>>

pairvars == <<preq, pst, files, env, lastinit>>

rcpvars == <<handlers, hidx, srctree, classes, lines_before, handled,
             extravalues, cmds, returned, rexit, start>>

extvars == <<matvars, initvars, unpvars, pairvars, rcpvars>>

vars == <<walkvars, dlvars, extvars>>

----------------------------------------------------------------------------
(* Bounds and input sets *)

\* A shrinkwrap forest has at most MaxNodes nodes in all.
MaxNodes == 3

\* download is called at most MaxRuns times on the destination.
MaxRuns == 2

\* A served tarball is TarLen bytes long (or empty).
TarLen == 2

\* An array answer of the registry holds at most MaxViews records.
MaxViews == 2

\* A version parameter is any string of at most MaxVerLen characters, or
\* a string around ".0.0" with at most MaxSuffixLen characters after it.
MaxVerLen == 4

MaxSuffixLen == 3

Names == {"A", "A1", "B"}
LockVersions == {"1.0.0", "1.0.1"}

None == "None"

----------------------------------------------------------------------------
(* Sequences *)

Last(s) == s[Len(s)]

Front(s) == SubSeq(s, 1, Len(s) - 1)

IsProperPrefix(s, t) == Len(s) < Len(t) /\ SubSeq(t, 1, Len(s)) = s

----------------------------------------------------------------------------
(* The lockfile: "dependencies" maps a name to {version, dependencies}; a  *)
(* JSON object keeps its keys in declaration order and has no key twice.   *)

RECURSIVE ForestsOfSize(_)
ForestsOfSize(n) ==
    IF n = 0 THEN {<<>>}
    ELSE UNION {
        {<<[name |-> nm, version |-> v, dependencies |-> c]>> \o rest :
            nm \in Names, v \in LockVersions,
            c \in ForestsOfSize(k),
            rest \in ForestsOfSize(n - 1 - k)}
        : k \in 0..(n - 1)}

DistinctKeys(deps) ==
    \A i, j \in 1..Len(deps) : i # j => deps[i].name # deps[j].name

RECURSIVE WellFormed(_)
WellFormed(deps) ==
    /\ DistinctKeys(deps)
    /\ \A i \in 1..Len(deps) : WellFormed(deps[i].dependencies)

Shrinkwraps ==
    {f \in UNION {ForestsOfSize(n) : n \in 0..MaxNodes} : WellFormed(f)}

\* The node at index path pos (pos # <<>>) of forest deps.
RECURSIVE NodeAt(_, _)
NodeAt(deps, pos) ==
    IF Len(pos) = 1 THEN deps[pos[1]]
    ELSE NodeAt(deps[pos[1]].dependencies, Tail(pos))

\* The index paths of all nodes of forest deps.
RECURSIVE Positions(_)
Positions(deps) ==
    UNION {{<<i>>} \cup {<<i>> \o p : p \in Positions(deps[i].dependencies)}
           : i \in 1..Len(deps)}

\* The names of the nodes from the top-level dependencies down to pos.
NamesAlong(deps, pos) ==
    [k \in 1..Len(pos) |-> NodeAt(deps, SubSeq(pos, 1, k)).name]

----------------------------------------------------------------------------
(* The registry, the tarballs and their digests *)

Some(x) == <<x>>

Max(a, b) == IF a >= b THEN a ELSE b

\* The tarballs a registry serves: tarball i is TarLen bytes i; a registry
\* may also serve an empty body.
TarballIds == {1, 2}

Tarball(i) == [k \in 1..TarLen |-> i]

Tarballs == {<<>>} \cup {Tarball(i) : i \in TarballIds}

RegVersions == {"1.0.0", "1.0.1"}

\* bb.utils.sha1_file and friends: the digest of a file's bytes under an
\* algorithm, as raw bytes, and its two textual encodings (hex digits, as
\* the digest functions and the shasum give it; base64, as an SRI token
\* gives it).
Digest(algo, data) == [algo |-> algo, of |-> data]

Hex(raw) == [hex |-> raw]

B64(raw) == [b64 |-> raw]

b64decode(text) == text.b64

sha_file(algo, data) == Hex(Digest(algo, data))

\* The SRI tokens "<algo>-<base64 digest>" a record may carry.
Algos == {"sha256", "sha384", "sha512", "md5"}

Integrities ==
    {[algo |-> a, value_b64 |-> B64(Digest(a, Tarball(i)))] :
        a \in Algos, i \in TarballIds}

Shasums == {sha_file("sha1", Tarball(i)) : i \in TarballIds}

\* A version record of the registry: {version, dist: {tarball, integrity,
\* shasum}}; the tarball URL stands for the bytes it serves.
Records ==
    [version : RegVersions, tarball : Tarballs,
     integrity : {<<>>} \cup {Some(t) : t \in Integrities},
     shasum : {<<>>} \cup {Some(h) : h \in Shasums}]

PlainRecords ==
    {r \in Records : r.integrity = <<>> /\ r.shasum = <<>>
                     /\ r.tarball = Tarball(1)}

\* The "error" object of a failed npm view: {code, summary, detail}; the
\* summary may be missing.
ViewErrors ==
    {[code |-> "E404", summary |-> Some("Not found")],
     [code |-> "E500", summary |-> Some("Internal error")],
     [code |-> "ETARGET", summary |-> <<>>]}

\* What `npm view --json` prints: nothing, a JSON object (a record, or an
\* object with an "error" field), or a JSON array of records.
Responses ==
    {[kind |-> "empty", error |-> <<>>, items |-> <<>>]}
    \cup {[kind |-> "object", error |-> Some(e), items |-> <<>>] :
            e \in ViewErrors}
    \cup {[kind |-> "object", error |-> <<>>, items |-> <<r>>] : r \in Records}
    \cup {[kind |-> "array", error |-> <<>>, items |-> a] :
            a \in UNION {[1..n -> PlainRecords] : n \in 0..MaxViews}}

NoFile == [exists |-> FALSE, data |-> <<>>]

----------------------------------------------------------------------------
(* Npm.need_update, Npm._run_npm_view, Npm._check_integrity, Npm.download *)

\* need_update: True for "latest", False when localpath exists, else True.
need_update(u, f) ==
    IF u.version = "latest" THEN TRUE
    ELSE IF f.exists THEN FALSE
    ELSE TRUE

\* check_network_access(d, cmd, url) passes (TRUE) or raises.
check_network_access(no_network) == ~no_network

\* view.get("error", {}).get("summary"): the message of the ParameterError
\* (None, here <<>>, without a summary).
ErrorCode(error) == Some(error.code)

error_summary(error) == error.summary

\* _run_npm_view after the command: the checks of the printed string, in
\* the order of the code. view.get("error") comes before the isinstance
\* test, and a list has no attribute get.
parse_view(resp) ==
    IF resp.kind = "empty"
    THEN [err |-> "InvalidView", msg |-> <<>>, view |-> <<>>]
    ELSE IF resp.kind = "array"
    THEN [err |-> "AttributeError", msg |-> <<>>, view |-> <<>>]
    ELSE IF resp.error # <<>>
    THEN [err |-> "RegistryError", msg |-> error_summary(resp.error[1]),
          view |-> <<>>]
    ELSE IF resp.kind = "array"
    THEN [err |-> None, msg |-> <<>>, view |-> Some(Last(resp.items))]
    ELSE [err |-> None, msg |-> <<>>, view |-> Some(resp.items[1])]

\* The version check of download: "warn", "error" or "ok".
NoVersionCheck(version, v) ==
    IF version = "latest" THEN "warn" ELSE "ok"

StrictVersionCheck(version, v) ==
    IF version # v.version THEN "error" ELSE "ok"

version_check(version, v) ==
    IF version = "latest" THEN "warn"
    ELSE IF version # v.version THEN "error"
    ELSE "ok"

\* if os.path.exists(ud.localpath): cmd += " --continue"
NeverContinue(f) == FALSE

continue_flag(f) == f.exists

\* _check_integrity(integrity, filename)
check_integrity(integrity, data) ==
    LET algo == integrity.algo
        value_hex == Hex(b64decode(integrity.value_b64))
    IN IF algo = "sha256" THEN value_hex = sha_file("sha256", data)
       ELSE IF algo = "sha384" THEN value_hex = sha_file("sha384", data)
       ELSE IF algo = "sha512" THEN value_hex = sha_file("sha512", data)
       ELSE FALSE

\* The two existence checks after wget returned: the error raised (None if
\* none) and the file left.
PostCheckKeepsEmpty(f) ==
    IF ~f.exists THEN [err |-> "FileMissing", file |-> f]
    ELSE IF Len(f.data) = 0 THEN [err |-> "EmptyArtifact", file |-> f]
    ELSE [err |-> None, file |-> f]

post_check(f) ==
    IF ~f.exists THEN [err |-> "FileMissing", file |-> f]
    ELSE IF Len(f.data) = 0 THEN [err |-> "EmptyArtifact", file |-> NoFile]
    ELSE [err |-> None, file |-> f]

\* The verification at the end of download: the schemes evaluated and the
\* error raised (None if none).
VerifyFallsBack(v, data) ==
    IF v.integrity # <<>> /\ check_integrity(v.integrity[1], data)
    THEN [consulted |-> {"integrity"}, err |-> None]
    ELSE IF v.shasum # <<>>
    THEN [consulted |-> IF v.integrity # <<>> THEN {"integrity", "shasum"}
                        ELSE {"shasum"},
          err |-> IF v.shasum[1] # sha_file("sha1", data)
                  THEN "ShasumMismatch" ELSE None]
    ELSE [consulted |-> IF v.integrity # <<>> THEN {"integrity"} ELSE {},
          err |-> IF v.integrity # <<>> THEN "IntegrityMismatch" ELSE None]

verify(v, data) ==
    IF v.integrity # <<>>
    THEN [consulted |-> {"integrity"},
          err |-> IF ~check_integrity(v.integrity[1], data)
                  THEN "IntegrityMismatch" ELSE None]
    ELSE IF v.shasum # <<>>
    THEN [consulted |-> {"shasum"},
          err |-> IF v.shasum[1] # sha_file("sha1", data)
                  THEN "ShasumMismatch" ELSE None]
    ELSE [consulted |-> {}, err |-> None]

Check(what) == [kind |-> "check", what |-> what]

Cmd(what) == [kind |-> "cmd", what |-> what]

Between == pc \in {"idle", "done", "failed"}

\* need_update(ud, d) is called between two downloads.
NeedUpdate ==
    /\ Between
    /\ need_upd' = IF need_update(ud, file) THEN "True" ELSE "False"
    /\ UNCHANGED <<ud, nonet, pc, runs, view_string, view, file, err,
                   errmsg, warned,
                   netlog, xfer, prev, atstart, atreturn, consulted>>
    /\ UNCHANGED walkvars
    /\ UNCHANGED extvars

\* download(ud, d) is called.
DownloadStart ==
    /\ Between
    /\ runs < MaxRuns
    /\ runs' = runs + 1
    /\ pc' = "npm_check"
    /\ view_string' = <<>>
    /\ view' = <<>>
    /\ err' = None
    /\ errmsg' = <<>>
    /\ warned' = FALSE
    /\ netlog' = <<>>
    /\ prev' = xfer
    /\ xfer' = <<>>
    /\ atstart' = file
    /\ atreturn' = <<>>
    /\ consulted' = {}
    /\ need_upd' = None
    /\ UNCHANGED <<ud, nonet, file>>
    /\ UNCHANGED walkvars
    /\ UNCHANGED extvars

\* _run_npm_view: the command is built and check_network_access is called.
NpmViewUnchecked ==
    /\ pc = "npm_check"
    /\ pc' = "npm_cmd"
    /\ UNCHANGED <<ud, nonet, runs, view_string, view, file, err,
                   errmsg, warned,
                   netlog, xfer, prev, atstart, atreturn, consulted, need_upd>>
    /\ UNCHANGED walkvars
    /\ UNCHANGED extvars

NpmViewCheck ==
    /\ pc = "npm_check"
    /\ IF check_network_access(nonet)
       THEN /\ netlog' = Append(netlog, Check("npm view"))
            /\ pc' = "npm_cmd"
            /\ err' = err
            /\ errmsg' = errmsg
       ELSE /\ netlog' = netlog
            /\ pc' = "failed"
            /\ err' = "NetworkAccess"
            /\ errmsg' = <<>>
    /\ UNCHANGED <<ud, nonet, runs, view_string, view, file, warned, xfer,
                   prev, atstart, atreturn, consulted, need_upd>>
    /\ UNCHANGED walkvars
    /\ UNCHANGED extvars

\* runfetchcmd(npm view) fails: it raises FetchError.
NpmViewFails ==
    /\ pc = "npm_cmd"
    /\ netlog' = Append(netlog, Cmd("npm view"))
    /\ pc' = "failed"
    /\ err' = "NpmViewFailed"
    /\ errmsg' = <<>>
    /\ UNCHANGED <<ud, nonet, runs, view_string, view, file, warned, xfer,
                   prev, atstart, atreturn, consulted, need_upd>>
    /\ UNCHANGED walkvars
    /\ UNCHANGED extvars

\* runfetchcmd(npm view) prints resp; _run_npm_view parses it; download reads
\* the record's dist fields and checks the version.
NpmView ==
    /\ pc = "npm_cmd"
    /\ \E resp \in Responses :
         LET r == parse_view(resp)
             chk == version_check(ud.version, r.view[1])
         IN /\ netlog' = Append(netlog, Cmd("npm view"))
            /\ view_string' = Some(resp)
            /\ view' = r.view
            /\ IF r.err # None
               THEN /\ pc' = "failed"
                    /\ err' = r.err
                    /\ errmsg' = r.msg
                    /\ warned' = warned
               ELSE IF chk = "error"
               THEN /\ pc' = "failed"
                    /\ err' = "InvalidVersion"
                    /\ errmsg' = <<>>
                    /\ warned' = warned
               ELSE /\ pc' = "wget_check"
                    /\ err' = err
                    /\ errmsg' = errmsg
                    /\ warned' = (chk = "warn")
    /\ UNCHANGED <<ud, nonet, runs, file, xfer, prev, atstart, atreturn,
                   consulted, need_upd>>
    /\ UNCHANGED walkvars
    /\ UNCHANGED extvars

\* download builds the wget command (--continue when the file exists) and
\* _run_wget calls check_network_access.
WgetCheck ==
    /\ pc = "wget_check"
    /\ xfer' = Some([cont |-> continue_flag(file), existed |-> file.exists,
                     before |-> Len(file.data), tarball |-> view[1].tarball,
                     offset |-> 0, got |-> 0, state |-> "built"])
    /\ IF check_network_access(nonet)
       THEN /\ netlog' = Append(netlog, Check("wget"))
            /\ pc' = "wget_cmd"
            /\ err' = err
            /\ errmsg' = errmsg
       ELSE /\ netlog' = netlog
            /\ pc' = "failed"
            /\ err' = "NetworkAccess"
            /\ errmsg' = <<>>
    /\ UNCHANGED <<ud, nonet, runs, view_string, view, file, warned, prev,
                   atstart, atreturn, consulted, need_upd>>
    /\ UNCHANGED walkvars
    /\ UNCHANGED extvars

\* wget --output-document=localpath [--continue] url: with --continue wget
\* keeps the bytes of the file and asks the server for the tarball from
\* that offset on; without it the output document is written from the
\* start. Where wget starts in the tarball, how many bytes are left to get,
\* and the bytes it keeps:
Offset == IF xfer[1].cont THEN Len(file.data) ELSE 0

Remaining ==
    IF Len(xfer[1].tarball) > Offset THEN Len(xfer[1].tarball) - Offset ELSE 0

Kept == IF xfer[1].cont THEN file.data ELSE <<>>

\* runfetchcmd(wget) transfers the tarball to the end and returns.
WgetCompletes ==
    /\ pc = "wget_cmd"
    /\ netlog' = Append(netlog, Cmd("wget"))
    /\ LET f == [exists |-> TRUE,
                 data |-> Kept \o SubSeq(xfer[1].tarball, Offset + 1,
                                          Offset + Remaining)]
       IN /\ file' = f
          /\ atreturn' = Some(f)
    /\ xfer' = Some([xfer[1] EXCEPT !.offset = Offset, !.got = Remaining,
                                    !.state = "complete"])
    /\ pc' = "post"
    /\ UNCHANGED <<ud, nonet, runs, view_string, view, err,
                   errmsg, warned, prev,
                   atstart, consulted, need_upd>>
    /\ UNCHANGED walkvars
    /\ UNCHANGED extvars

\* runfetchcmd(wget) is interrupted after k bytes, or fails: FetchError.
\* The output file may not have been created yet when nothing was written.
WgetInterrupted ==
    /\ pc = "wget_cmd"
    /\ netlog' = Append(netlog, Cmd("wget"))
    /\ \E k \in 0..Max(Remaining - 1, 0), created \in BOOLEAN :
         /\ created \/ (k = 0 /\ ~file.exists)
         /\ file' = IF created
                    THEN [exists |-> TRUE,
                          data |-> Kept \o SubSeq(xfer[1].tarball, Offset + 1,
                                                   Offset + k)]
                    ELSE file
         /\ xfer' = Some([xfer[1] EXCEPT !.offset = Offset, !.got = k,
                                         !.state = "interrupted"])
    /\ pc' = "failed"
    /\ err' = "WgetFailed"
    /\ errmsg' = <<>>
    /\ UNCHANGED <<ud, nonet, runs, view_string, view, warned, prev, atstart,
                   atreturn, consulted, need_upd>>
    /\ UNCHANGED walkvars
    /\ UNCHANGED extvars

\* The fetch command returns without having written the output document
\* (FETCHCMD_wget may name any command).
WgetNoOutput ==
    /\ pc = "wget_cmd"
    /\ ~file.exists
    /\ netlog' = Append(netlog, Cmd("wget"))
    /\ atreturn' = Some(file)
    /\ xfer' = Some([xfer[1] EXCEPT !.state = "nooutput"])
    /\ pc' = "post"
    /\ UNCHANGED <<ud, nonet, runs, view_string, view, file, err,
                   errmsg, warned,
                   prev, atstart, consulted, need_upd>>
    /\ UNCHANGED walkvars
    /\ UNCHANGED extvars

\* The fetched file must exist and must not be empty.
PostCheck ==
    /\ pc = "post"
    /\ LET r == post_check(file)
       IN /\ file' = r.file
          /\ err' = r.err
          /\ errmsg' = <<>>
          /\ pc' = IF r.err = None THEN "verify" ELSE "failed"
    /\ UNCHANGED <<ud, nonet, runs, view_string, view, warned, netlog, xfer,
                   prev, atstart, atreturn, consulted, need_upd>>
    /\ UNCHANGED walkvars
    /\ UNCHANGED extvars

\* The integrity, or else the shasum, of the fetched file is checked.
Verify ==
    /\ pc = "verify"
    /\ LET r == verify(view[1], file.data)
       IN /\ consulted' = r.consulted
          /\ err' = r.err
          /\ errmsg' = <<>>
          /\ pc' = IF r.err = None THEN "done" ELSE "failed"
    /\ UNCHANGED <<ud, nonet, runs, view_string, view, file, warned, netlog,
                   xfer, prev, atstart, atreturn, need_upd>>
    /\ UNCHANGED walkvars
    /\ UNCHANGED extvars

DownloadIdle ==
    /\ pc = "idle"
    /\ runs = 0
    /\ view_string = <<>>
    /\ view = <<>>
    /\ file = NoFile
    /\ err = None
    /\ warned = FALSE
    /\ netlog = <<>>
    /\ xfer = <<>>
    /\ prev = <<>>
    /\ atstart = NoFile
    /\ atreturn = <<>>
    /\ consulted = {}
    /\ need_upd = None
    /\ errmsg = <<>>

----------------------------------------------------------------------------
(* foreach_dependencies / walk_deps *)

\* `for name in deps`: a dict iterates over its keys in insertion
\* (declaration) order.
Reversed(deps) == [i \in 1..Len(deps) |-> deps[Len(deps) + 1 - i].name]

DictOrder(deps) == [i \in 1..Len(deps) |-> deps[i].name]

\* deps[name]: the place of key name in the dict, and its value.
IndexOf(deps, name) == CHOOSE i \in 1..Len(deps) : deps[i].name = name

Lookup(deps, name) == deps[IndexOf(deps, name)]

\* subtree = [*deptree, name]
OnlyName(deptree, name) == <<name>>

Subtree(deptree, name) == Append(deptree, name)

\* out.extend(walk_deps(...))
Extend(out, sub) == out \o sub

\* What callback(name, version, deptree) returns: the model's callback
\* returns its own arguments.
CallbackResult(name, version, deptree) ==
    [name |-> name, version |-> version, deptree |-> deptree]

\* A fresh activation of walk_deps(deps, deptree); pos is the index path of
\* the node whose dependencies are walked (<<>> at the top).
Frame(deps, deptree, pos) ==
    [deps |-> deps, keys |-> DictOrder(deps), idx |-> 1, deptree |-> deptree,
     pos |-> pos, out |-> <<>>, phase |-> "for"]

Top == stack[Len(stack)]

\* foreach_dependencies is called: walk_deps(shrinkwrap.get("dependencies", {}), [])
WalkStart ==
    /\ wpc = "idle"
    /\ wpc' = "walking"
    /\ stack' = <<Frame(shrinkwrap, <<>>, <<>>)>>
    /\ UNCHANGED <<shrinkwrap, callback, visits, result>>
    /\ UNCHANGED dlvars
    /\ UNCHANGED extvars

\* The loop takes the next name and calls walk_deps on its dependencies.
WalkDescend ==
    /\ wpc = "walking"
    /\ Top.phase = "for"
    /\ Top.idx <= Len(Top.keys)
    /\ LET name == Top.keys[Top.idx]
           subtree == Subtree(Top.deptree, name)
       IN stack' = Append([stack EXCEPT ![Len(stack)].phase = "call"],
                          Frame(Lookup(Top.deps, name).dependencies, subtree,
                                Append(Top.pos, IndexOf(Top.deps, name))))
    /\ UNCHANGED <<shrinkwrap, callback, visits, result, wpc>>
    /\ UNCHANGED dlvars
    /\ UNCHANGED extvars

\* An inner walk_deps returns its out; the caller extends its own with it.
WalkReturn ==
    /\ wpc = "walking"
    /\ Len(stack) > 1
    /\ Top.phase = "for"
    /\ Top.idx > Len(Top.keys)
    /\ LET caller == stack[Len(stack) - 1]
       IN stack' = [Front(stack) EXCEPT ![Len(stack) - 1] =
                        [caller EXCEPT !.out = Extend(caller.out, Top.out),
                                       !.phase = "callback"]]
    /\ UNCHANGED <<shrinkwrap, callback, visits, result, wpc>>
    /\ UNCHANGED dlvars
    /\ UNCHANGED extvars

\* if callback is not None: out.append(callback(name, version, subtree));
\* then the loop goes on to the next name.
WalkCallback ==
    /\ wpc = "walking"
    /\ Top.phase = "callback"
    /\ LET name == Top.keys[Top.idx]
           version == Lookup(Top.deps, name).version
           subtree == Subtree(Top.deptree, name)
           r == CallbackResult(name, version, subtree)
       IN IF callback # "none"
          THEN /\ visits' = Append(visits,
                     [name |-> name, version |-> version, deptree |-> subtree,
                      pos |-> Append(Top.pos, IndexOf(Top.deps, name))])
               /\ stack' = [stack EXCEPT ![Len(stack)] =
                     [Top EXCEPT !.out = Append(Top.out, r),
                                 !.idx = Top.idx + 1, !.phase = "for"]]
          ELSE /\ visits' = visits
               /\ stack' = [stack EXCEPT ![Len(stack)] =
                     [Top EXCEPT !.idx = Top.idx + 1, !.phase = "for"]]
    /\ UNCHANGED <<shrinkwrap, callback, result, wpc>>
    /\ UNCHANGED dlvars
    /\ UNCHANGED extvars

\* The outermost walk_deps returns: foreach_dependencies returns its out.
WalkDone ==
    /\ wpc = "walking"
    /\ Len(stack) = 1
    /\ Top.phase = "for"
    /\ Top.idx > Len(Top.keys)
    /\ result' = Top.out
    /\ stack' = <<>>
    /\ wpc' = "done"
    /\ UNCHANGED <<shrinkwrap, callback, visits>>
    /\ UNCHANGED dlvars
    /\ UNCHANGED extvars

\* fetch_dependencies and unpack_dependencies are not called.
MatIdle ==
    /\ job = <<>>
    /\ lockarg = "none"
    /\ srcfile = FALSE
    /\ extfile = "unset"
    /\ chosen = None
    /\ npm_registry = [scheme |-> "http", host |-> "registry.npmjs.org"]
    /\ wiped = FALSE
    /\ cur = <<>>
    /\ hstep = 0
    /\ dldir = {}
    /\ cache = {}
    /\ modules = {}
    /\ events = <<>>
    /\ merr = <<>>

\* No Fetch object is being built.
InitIdle ==
    /\ req = <<>>
    /\ fdata = <<>>

\* No archive is being extracted.
UnpackIdle ==
    /\ archive = <<>>
    /\ site = "unpack"
    /\ workdir = <<>>
    /\ upc = "idle"

\* No two Fetch objects share d.
PairIdle ==
    /\ preq = <<>>
    /\ pst = <<>>
    /\ files = <<>>
    /\ env = <<>>
    /\ lastinit = 0

\* recipetool is not creating a recipe.
RecipeIdle ==
    /\ handlers = <<>>
    /\ hidx = 0
    /\ srctree = <<>>
    /\ classes = <<>>
    /\ lines_before = <<>>
    /\ handled = <<>>
    /\ extravalues = <<>>
    /\ cmds = <<>>
    /\ returned = <<>>
    /\ rexit = <<>>
    /\ start = <<>>

ExtIdle == MatIdle /\ InitIdle /\ UnpackIdle /\ PairIdle /\ RecipeIdle

WalkIdle ==
    /\ stack = <<>>
    /\ visits = <<>>
    /\ result = <<>>
    /\ wpc = "idle"

WalkInit ==
    /\ shrinkwrap \in Shrinkwraps
    /\ callback \in {"none", "given"}
    /\ WalkIdle
    /\ ud = [name |-> "pkg", version |-> "1.0.0"]
    /\ nonet = FALSE
    /\ DownloadIdle
    /\ ExtIdle

WalkNext ==
    \/ WalkStart
    \/ WalkDescend
    \/ WalkReturn
    \/ WalkCallback
    \/ WalkDone

SpecWalk == WalkInit /\ [][WalkNext]_vars

----------------------------------------------------------------------------
(* Npm.need_update and Npm.download on one destination *)

Init ==
    /\ ud \in [name : {"pkg"}, version : {"1.0.0", "latest"}]
    /\ nonet \in BOOLEAN
    /\ DownloadIdle
    /\ shrinkwrap = <<>>
    /\ callback = "none"
    /\ WalkIdle
    /\ ExtIdle

Next ==
    \/ NeedUpdate
    \/ DownloadStart
    \/ NpmViewCheck
    \/ NpmViewFails
    \/ NpmView
    \/ WgetCheck
    \/ WgetCompletes
    \/ WgetInterrupted
    \/ WgetNoOutput
    \/ PostCheck
    \/ Verify

Spec == Init /\ [][Next]_vars

----------------------------------------------------------------------------
(* Npm._is_semver and Npm.urldata_init *)

\* The character classes of the regular expression.
Digit == {"0", "1", "2", "3", "4", "5", "6", "7", "8", "9"}

NonZero == Digit \ {"0"}

Letter ==
    {"a", "b", "c", "d", "e", "f", "g", "h", "i", "j", "k", "l", "m", "n",
     "o", "p", "q", "r", "s", "t", "u", "v", "w", "x", "y", "z",
     "A", "B", "C", "D", "E", "F", "G", "H", "I", "J", "K", "L", "M", "N",
     "O", "P", "Q", "R", "S", "T", "U", "V", "W", "X", "Y", "Z"}

\* Matching from a set P of positions of s: the positions after one
\* character of class C, and after any number of them.
OneFrom(s, P, C) == {i + 1 : i \in {p \in P : p <= Len(s) /\ s[p] \in C}}

StarFrom(s, P, C) ==
    {j \in 1..(Len(s) + 1) :
        \E i \in P : i <= j /\ \A k \in i..(j - 1) : s[k] \in C}

\* 0|[1-9]\d*
NumFrom(s, P) ==
    OneFrom(s, P, {"0"}) \cup StarFrom(s, OneFrom(s, P, NonZero), Digit)

\* 0|[1-9]\d*|\d*[a-zA-Z-][0-9a-zA-Z-]*
PreIdFrom(s, P) ==
    NumFrom(s, P)
    \cup StarFrom(s, OneFrom(s, StarFrom(s, P, Digit), Letter \cup {"-"}),
                  Digit \cup Letter \cup {"-"})

\* [0-9a-zA-Z-]+
BuildIdFrom(s, P) ==
    StarFrom(s, OneFrom(s, P, Digit \cup Letter \cup {"-"}),
             Digit \cup Letter \cup {"-"})

\* (?:\.<identifier>)*
RECURSIVE PreTail(_, _)
PreTail(s, P) ==
    LET more == PreIdFrom(s, OneFrom(s, P, {"."}))
    IN IF more \subseteq P THEN P ELSE PreTail(s, P \cup more)

RECURSIVE BuildTail(_, _)
BuildTail(s, P) ==
    LET more == BuildIdFrom(s, OneFrom(s, P, {"."}))
    IN IF more \subseteq P THEN P ELSE BuildTail(s, P \cup more)

\* _is_semver: regex.match(version) is not None. $ matches at the end and
\* before a newline that ends the string.
is_semver(s) ==
    LET core == NumFrom(s, OneFrom(s, NumFrom(s, OneFrom(s,
                    NumFrom(s, {1}), {"."})), {"."}))
        pre == core \cup PreTail(s, PreIdFrom(s, OneFrom(s, core, {"-"})))
        build == pre \cup BuildTail(s, BuildIdFrom(s, OneFrom(s, pre, {"+"})))
    IN \/ (Len(s) + 1) \in build
       \/ Len(s) \in build /\ s[Len(s)] = "\n"

\* The characters of the version strings.
Latest == <<"l", "a", "t", "e", "s", "t">>

\* The characters of the version strings "1.0.0", "latest" and "1.0".
Spell(version) ==
    IF version = "1.0.0" THEN <<"1", ".", "0", ".", "0">>
    ELSE IF version = "latest" THEN Latest
    ELSE <<"1", ".", "0">>

\* The object urldata_init is given: the url's host and parameters; name
\* and version are None until urldata_init sets them.
FetchData(host, parm) ==
    [host |-> host, parm |-> parm, name |-> <<>>, version |-> <<>>]

\* urldata_init(ud, d) on fd, the version parameter spelled chars: the
\* exception raised (None if none), ud's fields, and NPM_REGISTRY in d.
NoNameCheck(fd, chars, registry) ==
    LET name == IF fd.parm.name # <<>> THEN fd.parm.name ELSE fd.name
        version == IF fd.parm.version # <<>> THEN fd.parm.version
                   ELSE fd.version
    IN IF version = <<>> \/ chars = <<>>
       THEN [err |-> "MissingParameter", what |-> "version", ud |-> <<>>,
             npm_registry |-> registry]
       ELSE IF ~is_semver(chars) /\ chars # Latest
       THEN [err |-> "InvalidVersion", what |-> "version", ud |-> <<>>,
             npm_registry |-> registry]
       ELSE [err |-> None, what |-> None,
             ud |-> Some([name |-> name, version |-> version,
                         registry |-> [scheme |-> "http", host |-> fd.host]]),
             npm_registry |-> [scheme |-> "http", host |-> fd.host]]

urldata_init(fd, chars, registry) ==
    LET name == IF fd.parm.name # <<>> THEN fd.parm.name ELSE fd.name
        version == IF fd.parm.version # <<>> THEN fd.parm.version
                   ELSE fd.version
    IN IF name = <<>> \/ name[1] = ""
       THEN [err |-> "MissingParameter", what |-> "name", ud |-> <<>>,
             npm_registry |-> registry]
       ELSE IF version = <<>> \/ chars = <<>>
       THEN [err |-> "MissingParameter", what |-> "version", ud |-> <<>>,
             npm_registry |-> registry]
       ELSE IF ~is_semver(chars) /\ chars # Latest
       THEN [err |-> "InvalidVersion", what |-> "version", ud |-> <<>>,
             npm_registry |-> registry]
       ELSE [err |-> None, what |-> None,
             ud |-> Some([name |-> name, version |-> version,
                         registry |-> [scheme |-> "http", host |-> fd.host]]),
             npm_registry |-> [scheme |-> "http", host |-> fd.host]]

\* The version parameters tried.
Alphabet == {"0", "1", "a", "-", ".", "+"}

RECURSIVE StrUpTo(_)
StrUpTo(n) ==
    IF n = 0 THEN {<<>>}
    ELSE StrUpTo(n - 1)
         \cup {Append(s, c) : s \in StrUpTo(n - 1), c \in Alphabet}

VersionParms ==
    StrUpTo(MaxVerLen)
    \cup {p \o <<".", "0", ".", "0">> \o q :
            p \in StrUpTo(2), q \in StrUpTo(MaxSuffixLen)}
    \cup {Latest, <<"1", ".", "0", ".", "0", "\n">>}

\* A Fetch object is built for a url: urldata_init runs on its FetchData.
UrldataInit ==
    /\ fdata = <<>>
    /\ LET chars == IF req.parm.version = <<>> THEN <<>>
                    ELSE req.parm.version[1]
           r == urldata_init(FetchData(req.host, req.parm), chars,
                             npm_registry)
       IN /\ fdata' = Some([err |-> r.err, what |-> r.what, ud |-> r.ud])
          /\ npm_registry' = r.npm_registry
    /\ UNCHANGED req
    /\ UNCHANGED unpvars
    /\ UNCHANGED pairvars
    /\ UNCHANGED rcpvars
    /\ UNCHANGED <<job, lockarg, srcfile, extfile, chosen, wiped, cur, hstep,
                   dldir, cache, modules, events, merr>>
    /\ UNCHANGED walkvars
    /\ UNCHANGED dlvars

InitInit ==
    /\ req \in [host : {"registry.example.org"},
                parm : [name : {<<>>, <<"">>, <<"pkg">>},
                        version : {<<>>} \cup {Some(v) : v \in VersionParms}]]
    /\ fdata = <<>>
    /\ shrinkwrap = <<>>
    /\ callback = "none"
    /\ WalkIdle
    /\ ud = [name |-> "pkg", version |-> "1.0.0"]
    /\ nonet = FALSE
    /\ DownloadIdle
    /\ RecipeIdle
    /\ MatIdle
    /\ UnpackIdle
    /\ PairIdle

InitNext == UrldataInit

SpecInit == InitInit /\ [][InitNext]_vars

----------------------------------------------------------------------------
(* fetch_dependencies and unpack_dependencies *)

\* The lockfiles of the dependency runs: the names and the version give the
\* same package at several places of a tree.
MatNames == {"A", "B"}

RECURSIVE Uses(_, _)
Uses(deps, names) ==
    \A i \in 1..Len(deps) :
        /\ deps[i].name \in names
        /\ deps[i].version = "1.0.0"
        /\ Uses(deps[i].dependencies, names)

MatLocks == {f \in Shrinkwraps : Uses(f, MatNames)}

\* ${S}, and what an earlier build may have left in NPM_CACHE_DIR and in
\* ${S}/node_modules.
S == "S"

\* _get_url: NPM_REGISTRY with its scheme replaced by npm://, then
\* ;name=...;version=...
get_url(registry, name, version) ==
    [scheme |-> "npm", host |-> registry.host, name |-> name,
     version |-> version]

\* fetcher.localpath(url): ${DL_DIR}/npm/<registry>/<name>-<version>.tgz
localpath(url) ==
    <<"DL_DIR", "npm", url.host, <<url.name, "-", url.version, ".tgz">>>>

StaleCache == {<<"DL_DIR", "npm", "old", <<"Z", "-", "0.0.1", ".tgz">>>>}

StaleModules ==
    {[path |-> <<S, "node_modules", "Z">>,
      tarball |-> <<"DL_DIR", "npm", "old", <<"Z", "-", "0.0.1", ".tgz">>>>]}

\* The tarball of every node of a lockfile.
TarballsOf(deps) ==
    {localpath(get_url([scheme |-> "http", host |-> "registry.npmjs.org"],
                       NodeAt(deps, p).name, NodeAt(deps, p).version)) :
        p \in Positions(deps)}

\* get_shrinkwrap_file: os.path.exists(None) raises TypeError.
get_shrinkwrap_file(src_exists, npm_shrinkwrap) ==
    IF src_exists THEN [file |-> "src", err |-> None]
    ELSE IF npm_shrinkwrap = "unset" THEN [file |-> None, err |-> "TypeError"]
    ELSE IF npm_shrinkwrap = "exists" THEN [file |-> "ext", err |-> None]
    ELSE [file |-> None, err |-> "NoLockfile"]

\* _parse_shrinkwrap(d, shrinkwrap_file)
parse_shrinkwrap(shrinkwrap_file, src_exists, npm_shrinkwrap) ==
    IF shrinkwrap_file = "given" THEN [file |-> "arg", err |-> None]
    ELSE get_shrinkwrap_file(src_exists, npm_shrinkwrap)

\* bb.utils.remove(dir, recurse=True)
KeepDir(dir) == dir

remove(dir) == {}

\* What handle_dependency does with a node, in order. fetch_dependency:
\* fetcher.download() resolves, transfers and verifies; the handler of
\* unpack_dependencies adds the tarball to the cache and extracts it.
ExtractFirst(mode) ==
    IF mode = "fetch" THEN <<"resolve", "fetch", "verify">>
    ELSE <<"extract", "cache">>

handler_steps(mode) ==
    IF mode = "fetch" THEN <<"resolve", "fetch", "verify">>
    ELSE <<"cache", "extract">>

\* os.path.join(*[os.path.join("node_modules", d) for d in deptree])
FlatPath(deptree) == <<"node_modules", Last(deptree)>>

RECURSIVE relpath(_)
relpath(deptree) ==
    IF deptree = <<>> THEN <<>>
    ELSE <<"node_modules", Head(deptree)>> \o relpath(Tail(deptree))

\* os.path.join(d.getVar("S"), relpath)
abspath(deptree) == <<S>> \o relpath(deptree)

\* The exception a failing step raises: the fetcher's errors carry ud.url,
\* a failing command carries its command line, and the extraction is run
\* with workdir=srctree. The handler of fetch_dependencies drops deptree.
WithDeptree(step, name, version, deptree) ==
    [step |-> step, url |-> Some(get_url(npm_registry, name, version)),
     cmd |-> <<>>, workdir |-> Some(abspath(deptree))]

step_error(step, name, version, deptree) ==
    LET url == get_url(npm_registry, name, version)
    IN IF step \in {"resolve", "fetch", "verify"}
       THEN [step |-> step, url |-> Some(url), cmd |-> <<>>, workdir |-> <<>>]
       ELSE IF step = "cache"
       THEN [step |-> step, url |-> <<>>, cmd |-> Some(localpath(url)),
             workdir |-> <<>>]
       ELSE [step |-> step, url |-> <<>>, cmd |-> Some(localpath(url)),
             workdir |-> Some(abspath(deptree))]

\* An exception in the callback leaves every walk_deps activation: there is
\* no try in walk_deps or in its callers.
CaughtInLoop(frames) ==
    [frames EXCEPT ![Len(frames)] =
        [frames[Len(frames)] EXCEPT !.idx = @ + 1, !.phase = "for"]]

unwind(frames) == <<>>

Mode == job[1]

\* unpack_dependencies first removes NPM_CACHE_DIR and ${S}/node_modules.
UnpackWipe ==
    /\ job # <<>>
    /\ Mode = "unpack"
    /\ wpc = "idle"
    /\ ~wiped
    /\ cache' = remove(cache)
    /\ modules' = remove(modules)
    /\ wiped' = TRUE
    /\ UNCHANGED <<job, lockarg, srcfile, extfile, chosen, npm_registry, cur,
                   hstep, dldir, events, merr>>
    /\ UNCHANGED walkvars
    /\ UNCHANGED dlvars
    /\ UNCHANGED initvars
    /\ UNCHANGED rcpvars
    /\ UNCHANGED unpvars
    /\ UNCHANGED pairvars

\* foreach_dependencies: _parse_shrinkwrap, then the outermost walk_deps.
ForeachStart ==
    /\ job # <<>>
    /\ wpc = "idle"
    /\ Mode = "unpack" => wiped
    /\ LET p == parse_shrinkwrap(lockarg, srcfile, extfile)
       IN IF p.err # None
          THEN /\ merr' = Some([step |-> "parse", url |-> <<>>,
                                cmd |-> Some(p.err), workdir |-> <<>>])
               /\ wpc' = "raised"
               /\ UNCHANGED <<chosen, stack>>
          ELSE /\ chosen' = p.file
               /\ stack' = <<Frame(shrinkwrap, <<>>, <<>>)>>
               /\ wpc' = "walking"
               /\ merr' = merr
    /\ UNCHANGED <<job, lockarg, srcfile, extfile, npm_registry, wiped, cur,
                   hstep, dldir, cache, modules, events>>
    /\ UNCHANGED <<shrinkwrap, callback, visits, result>>
    /\ UNCHANGED dlvars
    /\ UNCHANGED initvars
    /\ UNCHANGED rcpvars
    /\ UNCHANGED unpvars
    /\ UNCHANGED pairvars

\* callback(name, version, subtree) enters handle_dependency, which builds
\* the url with _get_url and a Fetch for it: urldata_init runs on the url
\* (the versions of the lockfiles are semantic versions).
HandlerCall ==
    /\ wpc = "walking"
    /\ Top.phase = "callback"
    /\ hstep = 0
    /\ LET name == Top.keys[Top.idx]
           version == Lookup(Top.deps, name).version
           subtree == Subtree(Top.deptree, name)
           url == get_url(npm_registry, name, version)
           r == urldata_init(
                  FetchData(url.host, [name |-> Some(url.name),
                                       version |-> Some(url.version)]),
                  Spell(url.version), npm_registry)
           node == [name |-> name, version |-> version, deptree |-> subtree,
                    pos |-> Append(Top.pos, IndexOf(Top.deps, name)),
                    registry |-> r.ud[1].registry]
       IN /\ cur' = Some(node)
          /\ visits' = Append(visits, node)
          /\ npm_registry' = r.npm_registry
    /\ hstep' = 1
    /\ UNCHANGED <<job, lockarg, srcfile, extfile, chosen, wiped, dldir, cache,
                   modules, events, merr>>
    /\ UNCHANGED <<shrinkwrap, callback, stack, result, wpc>>
    /\ UNCHANGED dlvars
    /\ UNCHANGED initvars
    /\ UNCHANGED rcpvars
    /\ UNCHANGED unpvars
    /\ UNCHANGED pairvars

Step == handler_steps(Mode)[hstep]

CurTarball == localpath(get_url(npm_registry, cur[1].name, cur[1].version))

\* The current step of the handler succeeds; after its last step the handler
\* returns None and the loop goes on to the next name.
HandlerStep ==
    /\ wpc = "walking"
    /\ hstep >= 1
    /\ Step \in {"cache", "extract"} => CurTarball \in dldir
    /\ dldir' = IF Step = "fetch" THEN dldir \cup {CurTarball} ELSE dldir
    /\ cache' = IF Step = "cache" THEN cache \cup {CurTarball} ELSE cache
    /\ modules' = IF Step = "extract"
                  THEN modules \cup {[path |-> abspath(cur[1].deptree),
                                      tarball |-> CurTarball]}
                  ELSE modules
    /\ events' = Append(events, [step |-> Step, pos |-> cur[1].pos])
    /\ IF hstep = Len(handler_steps(Mode))
       THEN /\ hstep' = 0
            /\ cur' = <<>>
            /\ stack' = [stack EXCEPT ![Len(stack)] =
                  [Top EXCEPT !.out = Append(Top.out, None),
                              !.idx = Top.idx + 1, !.phase = "for"]]
       ELSE /\ hstep' = hstep + 1
            /\ UNCHANGED <<cur, stack>>
    /\ UNCHANGED <<job, lockarg, srcfile, extfile, chosen, npm_registry, wiped,
                   merr>>
    /\ UNCHANGED <<shrinkwrap, callback, visits, result, wpc>>
    /\ UNCHANGED dlvars
    /\ UNCHANGED initvars
    /\ UNCHANGED rcpvars
    /\ UNCHANGED unpvars
    /\ UNCHANGED pairvars

\* The current step of the handler raises: the registry, the transfer, the
\* verification or a command may fail at any node.
HandlerRaise ==
    /\ wpc = "walking"
    /\ hstep >= 1
    /\ merr' = Some(step_error(Step, cur[1].name, cur[1].version,
                               cur[1].deptree))
    /\ stack' = unwind(stack)
    /\ wpc' = IF unwind(stack) = <<>> THEN "raised" ELSE "walking"
    /\ hstep' = 0
    /\ UNCHANGED <<job, lockarg, srcfile, extfile, chosen, npm_registry, wiped,
                   cur, dldir, cache, modules, events>>
    /\ UNCHANGED <<shrinkwrap, callback, visits, result>>
    /\ UNCHANGED dlvars
    /\ UNCHANGED initvars
    /\ UNCHANGED rcpvars
    /\ UNCHANGED unpvars
    /\ UNCHANGED pairvars

\* The call returned; the next of the calls is made.
NextCall ==
    /\ wpc = "done"
    /\ Len(job) > 1
    /\ job' = Tail(job)
    /\ wiped' = FALSE
    /\ events' = <<>>
    /\ visits' = <<>>
    /\ result' = <<>>
    /\ wpc' = "idle"
    /\ UNCHANGED <<lockarg, srcfile, extfile, chosen, npm_registry, cur, hstep,
                   dldir, cache, modules, merr>>
    /\ UNCHANGED <<shrinkwrap, callback, stack>>
    /\ UNCHANGED dlvars
    /\ UNCHANGED initvars
    /\ UNCHANGED rcpvars
    /\ UNCHANGED unpvars
    /\ UNCHANGED pairvars

Jobs == {<<"fetch">>, <<"fetch", "unpack">>, <<"unpack">>,
         <<"unpack", "unpack">>}

MatInit ==
    /\ shrinkwrap \in MatLocks
    /\ callback = "given"
    /\ WalkIdle
    /\ ud = [name |-> "pkg", version |-> "1.0.0"]
    /\ nonet = FALSE
    /\ DownloadIdle
    /\ RecipeIdle
    /\ job \in Jobs
    /\ lockarg \in {"none", "given"}
    /\ srcfile \in BOOLEAN
    /\ extfile \in {"unset", "missing", "exists"}
    /\ chosen = None
    /\ npm_registry \in [scheme : {"http", "https"},
                         host : {"registry.npmjs.org"}]
    /\ wiped = FALSE
    /\ cur = <<>>
    /\ hstep = 0
    /\ dldir \in IF job[1] = "fetch" THEN {{}}
                 ELSE {{}, TarballsOf(shrinkwrap)}
    /\ cache \in {{}, StaleCache}
    /\ modules = IF cache = {} THEN {} ELSE StaleModules
    /\ events = <<>>
    /\ merr = <<>>
    /\ InitIdle
    /\ UnpackIdle
    /\ PairIdle

MatNext ==
    \/ UnpackWipe
    \/ ForeachStart
    \/ WalkDescend
    \/ WalkReturn
    \/ HandlerCall
    \/ HandlerStep
    \/ HandlerRaise
    \/ WalkDone
    \/ NextCall

SpecMat == MatInit /\ [][MatNext]_vars

----------------------------------------------------------------------------
(* Npm.unpack and unpack_dependencies.unpack_dependency: tar --transform *)

\* The member names of an archive, as their path components, and the
\* contents of a member.
MemberNames ==
    {<<"package", "a.txt">>, <<"package", "lib", "b.js">>,
     <<"other", "a.txt">>, <<"other", "lib", "c.js">>, <<"README">>}

Contents == {"x", "y"}

Archives == UNION {[D -> Contents] : D \in SUBSET MemberNames}

\* The replacement of the two sed expressions: s:^package/:npm/: in
\* Npm.unpack, s:^package/:: in unpack_dependency.
replacement(who) == IF who = "unpack" THEN <<"npm">> ELSE <<>>

\* --transform 's:^package/:<replacement>:' on a member name: only a
\* leading "package/" is replaced.
transform(name, who) ==
    IF Len(name) >= 2 /\ name[1] = "package"
    THEN replacement(who) \o Tail(name)
    ELSE name

\* tar --extract: every member is written under its transformed name.
extract(members, who) ==
    LET names == {transform(n, who) : n \in DOMAIN members}
    IN [t \in names |->
          members[CHOOSE n \in DOMAIN members : transform(n, who) = t]]

\* runfetchcmd(tar --extract ... --transform ...) in an empty directory.
Unpack ==
    /\ upc = "ready"
    /\ workdir' = extract(archive, site)
    /\ upc' = "done"
    /\ UNCHANGED <<archive, site>>
    /\ UNCHANGED matvars
    /\ UNCHANGED initvars
    /\ UNCHANGED rcpvars
    /\ UNCHANGED pairvars
    /\ UNCHANGED walkvars
    /\ UNCHANGED dlvars

UnpackInit ==
    /\ archive \in Archives
    /\ site \in {"unpack", "unpack_dependency"}
    /\ workdir = <<>>
    /\ upc = "ready"
    /\ shrinkwrap = <<>>
    /\ callback = "none"
    /\ WalkIdle
    /\ ud = [name |-> "pkg", version |-> "1.0.0"]
    /\ nonet = FALSE
    /\ DownloadIdle
    /\ RecipeIdle
    /\ MatIdle
    /\ InitIdle
    /\ PairIdle

UnpackNext == Unpack

SpecUnpack == UnpackInit /\ [][UnpackNext]_vars

----------------------------------------------------------------------------
(* Two single-package fetches that share the datastore d *)

Procs == {1, 2}

Hosts == {"registry.npmjs.org", "registry.example.org"}

PairRequests ==
    [host : Hosts, name : {"pkg", "lib"}, version : {"1.0.0", "latest", "1.0"}]

\* The members of the tarballs the registries serve.
members(data) ==
    IF data = Tarball(1) THEN [n \in {<<"package", "a.txt">>} |-> "x"]
    ELSE [n \in {<<"package", "a.txt">>, <<"other", "a.txt">>} |-> "y"]

\* What a registry may answer, the same to every query: a record with a
\* matching integrity, a record of another version with a matching shasum,
\* a record whose integrity is another tarball's, or an error.
PairResponses ==
    {[kind |-> "object", error |-> <<>>, items |->
        <<[version |-> "1.0.0", tarball |-> Tarball(1),
           integrity |-> Some([algo |-> "sha512",
                value_b64 |-> B64(Digest("sha512", Tarball(1)))]),
           shasum |-> <<>>]>>],
     [kind |-> "object", error |-> <<>>, items |->
        <<[version |-> "1.0.1", tarball |-> Tarball(2),
           integrity |-> <<>>,
           shasum |-> Some(sha_file("sha1", Tarball(2)))]>>],
     [kind |-> "object", error |-> <<>>, items |->
        <<[version |-> "1.0.0", tarball |-> Tarball(2),
           integrity |-> Some([algo |-> "sha512",
                value_b64 |-> B64(Digest("sha512", Tarball(1)))]),
           shasum |-> <<>>]>>],
     [kind |-> "object", error |-> Some([code |-> "E404",
                                         summary |-> Some("Not found")]),
      items |-> <<>>]}

\* ud.localpath of a request.
PathOf(rq) ==
    localpath(get_url([scheme |-> "http", host |-> rq.host], rq.name,
                      rq.version))

\* The registry npm view is run against: --registry=<ud.registry>.
FromDatastore(u, registry) == registry

view_registry(u, registry) == u.registry

PairStart == [pc |-> "new", ud |-> <<>>, view |-> <<>>, err |-> None,
              warned |-> FALSE, out |-> <<>>]

\* Fetch([url], d): urldata_init on the url of p.
PInit(p) ==
    /\ pst[p].pc = "new"
    /\ LET rq == preq[p]
           r == urldata_init(
                  FetchData(rq.host, [name |-> Some(rq.name),
                                      version |-> Some(rq.version)]),
                  Spell(rq.version), npm_registry)
       IN /\ npm_registry' = r.npm_registry
          /\ IF r.err # None
             THEN /\ pst' = [pst EXCEPT ![p].pc = "failed", ![p].err = r.err]
                  /\ lastinit' = lastinit
             ELSE /\ pst' = [pst EXCEPT ![p].pc = "init", ![p].ud = r.ud]
                  /\ lastinit' = p
    /\ UNCHANGED <<preq, files, env>>
    /\ UNCHANGED <<job, lockarg, srcfile, extfile, chosen, wiped, cur, hstep,
                   dldir, cache, modules, events, merr>>
    /\ UNCHANGED initvars
    /\ UNCHANGED rcpvars
    /\ UNCHANGED unpvars
    /\ UNCHANGED walkvars
    /\ UNCHANGED dlvars

\* download of p: _run_npm_view and the version check.
PView(p) ==
    /\ pst[p].pc = "init"
    /\ LET u == pst[p].ud[1]
           r == parse_view(env[view_registry(u, npm_registry).host])
           chk == version_check(u.version[1], r.view[1])
       IN IF r.err # None
          THEN pst' = [pst EXCEPT ![p].pc = "failed", ![p].err = r.err]
          ELSE IF chk = "error"
          THEN pst' = [pst EXCEPT ![p].pc = "failed",
                                  ![p].err = "InvalidVersion"]
          ELSE pst' = [pst EXCEPT ![p].pc = "viewed", ![p].view = r.view,
                                  ![p].warned = (chk = "warn")]
    /\ UNCHANGED <<preq, files, env, lastinit>>
    /\ UNCHANGED matvars
    /\ UNCHANGED initvars
    /\ UNCHANGED rcpvars
    /\ UNCHANGED unpvars
    /\ UNCHANGED walkvars
    /\ UNCHANGED dlvars

\* download of p: wget writes the tarball to ud.localpath.
PWget(p) ==
    /\ pst[p].pc = "viewed"
    /\ files' = [files EXCEPT ![PathOf(preq[p])] =
                    [exists |-> TRUE, data |-> pst[p].view[1].tarball]]
    /\ pst' = [pst EXCEPT ![p].pc = "fetched"]
    /\ UNCHANGED <<preq, env, lastinit>>
    /\ UNCHANGED matvars
    /\ UNCHANGED initvars
    /\ UNCHANGED rcpvars
    /\ UNCHANGED unpvars
    /\ UNCHANGED walkvars
    /\ UNCHANGED dlvars

\* download of p: the checks of the fetched file and its verification.
PVerify(p) ==
    /\ pst[p].pc = "fetched"
    /\ LET path == PathOf(preq[p])
           c == post_check(files[path])
           v == verify(pst[p].view[1], c.file.data)
       IN /\ files' = [files EXCEPT ![path] = c.file]
          /\ IF c.err # None
             THEN pst' = [pst EXCEPT ![p].pc = "failed", ![p].err = c.err]
             ELSE IF v.err # None
             THEN pst' = [pst EXCEPT ![p].pc = "failed", ![p].err = v.err]
             ELSE pst' = [pst EXCEPT ![p].pc = "verified"]
    /\ UNCHANGED <<preq, env, lastinit>>
    /\ UNCHANGED matvars
    /\ UNCHANGED initvars
    /\ UNCHANGED rcpvars
    /\ UNCHANGED unpvars
    /\ UNCHANGED walkvars
    /\ UNCHANGED dlvars

\* unpack of p in its own rootdir.
PUnpack(p) ==
    /\ pst[p].pc = "verified"
    /\ pst' = [pst EXCEPT ![p].pc = "done",
                 ![p].out = Some(extract(members(files[PathOf(preq[p])].data),
                                         "unpack"))]
    /\ UNCHANGED <<preq, files, env, lastinit>>
    /\ UNCHANGED matvars
    /\ UNCHANGED initvars
    /\ UNCHANGED rcpvars
    /\ UNCHANGED unpvars
    /\ UNCHANGED walkvars
    /\ UNCHANGED dlvars

PairInit ==
    /\ preq \in [Procs -> PairRequests]
    /\ PathOf(preq[1]) # PathOf(preq[2])
    /\ pst = [p \in Procs |-> PairStart]
    /\ files = [f \in {PathOf(preq[p]) : p \in Procs} |-> NoFile]
    /\ env \in [Hosts -> PairResponses]
    /\ lastinit = 0
    /\ shrinkwrap = <<>>
    /\ callback = "none"
    /\ WalkIdle
    /\ ud = [name |-> "pkg", version |-> "1.0.0"]
    /\ nonet = FALSE
    /\ DownloadIdle
    /\ RecipeIdle
    /\ MatIdle
    /\ InitIdle
    /\ UnpackIdle

PairNext ==
    \/ \E p \in Procs : PInit(p)
    \/ \E p \in Procs : PView(p)
    \/ \E p \in Procs : PWget(p)
    \/ \E p \in Procs : PVerify(p)
    \/ \E p \in Procs : PUnpack(p)

SpecPair == PairInit /\ [][PairNext]_vars

----------------------------------------------------------------------------
(* Claims about foreach_dependencies *)

VisitedBefore(i) == {visits[k].pos : k \in 1..(i - 1)}

\* C1: foreach_dependencies calls the callback depth-first in post-order:
\* when a node is visited all its descendants have been visited, and so have
\* all the siblings declared before it; no node is visited twice; and when
\* the walk is done every node has been visited and the returned list holds
\* one callback result per node, in visit order.
C1_PostOrder ==
    callback = "given" =>
        /\ \A i \in 1..Len(visits) :
              /\ \A p \in Positions(shrinkwrap) :
                    IsProperPrefix(visits[i].pos, p) => p \in VisitedBefore(i)
              /\ \A k \in 1..(Last(visits[i].pos) - 1) :
                    Append(Front(visits[i].pos), k) \in VisitedBefore(i)
              /\ visits[i].pos \notin VisitedBefore(i)
        /\ wpc = "done" =>
              /\ {visits[i].pos : i \in 1..Len(visits)} = Positions(shrinkwrap)
              /\ Len(result) = Len(visits)
              /\ \A i \in 1..Len(visits) :
                    result[i] = CallbackResult(visits[i].name, visits[i].version,
                                               visits[i].deptree)

ExampleTree ==
    <<[name |-> "A", version |-> "1.0.0", dependencies |->
          <<[name |-> "A1", version |-> "1.0.0", dependencies |-> <<>>]>>],
      [name |-> "B", version |-> "1.0.1", dependencies |-> <<>>]>>

\* The spec's example root -> {A -> {A1}, B} has been walked: A1, A, B.
C1_Witness ==
    /\ wpc = "done"
    /\ callback = "given"
    /\ shrinkwrap = ExampleTree
    /\ [i \in 1..Len(result) |-> result[i].name] = <<"A1", "A", "B">>

\* C2: the deptree passed to the callback is the sequence of names from the
\* top-level dependencies down to the visited node, ending with the node's
\* own name; its length is the node's depth; it depends on the node's
\* position only, not on the siblings visited before.
C2_DeptreeIsPath ==
    \A i \in 1..Len(visits) :
        /\ visits[i].deptree = NamesAlong(shrinkwrap, visits[i].pos)
        /\ Len(visits[i].deptree) = Len(visits[i].pos)
        /\ Last(visits[i].deptree) = visits[i].name
        /\ visits[i].version = NodeAt(shrinkwrap, visits[i].pos).version

\* A nested node is visited after an earlier sibling subtree of its parent.
C2_Witness ==
    \E i, j \in 1..Len(visits) :
        /\ i < j
        /\ visits[i].deptree = <<"A">>
        /\ visits[j].deptree = <<"B", "A1">>

----------------------------------------------------------------------------
(* Claims about Npm.download *)

NetCmds == {i \in 1..Len(netlog) : netlog[i].kind = "cmd"}

WgetRan == \E i \in NetCmds : netlog[i].what = "wget"

AfterTransferErrors ==
    {"WgetFailed", "FileMissing", "EmptyArtifact", "IntegrityMismatch",
     "ShasumMismatch"}

\* C3: for a request whose version is not "latest", once the registry's
\* record is known, download goes on only if the record's version is the
\* requested one; otherwise it fails with the invalid-version error and no
\* transfer is made (no wget command, the destination untouched).
C3_PinnedVersion ==
    (ud.version # "latest" /\ view # <<>>) =>
        IF view[1].version = ud.version
        THEN err # "InvalidVersion"
        ELSE /\ pc = "failed"
             /\ err = "InvalidVersion"
             /\ xfer = <<>>
             /\ ~WgetRan
             /\ file = atstart

\* The registry resolved 1.0.1 for a requested 1.0.0: invalid version.
C3_Witness ==
    /\ ud.version = "1.0.0"
    /\ view # <<>>
    /\ view[1].version = "1.0.1"
    /\ err = "InvalidVersion"

\* C4: for a request of "latest", download never fails with the
\* invalid-version error: once the registry's record is known (its version
\* always differs from "latest") a warning has been issued and the fetch
\* went on to the transfer, so that only the transfer or the checks after
\* it can still fail.
C4_LatestOnlyWarns ==
    ud.version = "latest" =>
        /\ err # "InvalidVersion"
        /\ view # <<>> =>
             /\ view[1].version # ud.version
             /\ warned
             /\ pc \in {"wget_check", "wget_cmd", "post", "verify", "done",
                        "failed"}
             /\ pc = "failed" => err \in AfterTransferErrors

\* A "latest" request resolved to 1.0.1 and the download succeeded.
C4_Witness ==
    /\ ud.version = "latest"
    /\ view # <<>>
    /\ view[1].version = "1.0.1"
    /\ warned
    /\ pc = "done"

\* C5: when npm view answers with a non-empty array of records,
\* _run_npm_view raises nothing and returns the last one; when it answers
\* with a single record, that record is returned.
C5_ArrayLastElement ==
    view_string # <<>> =>
        LET resp == view_string[1]
        IN /\ (resp.kind = "array" /\ Len(resp.items) > 0) =>
                 /\ err \notin {"InvalidView", "AttributeError", "RegistryError"}
                 /\ view = Some(Last(resp.items))
           /\ (resp.kind = "object" /\ resp.error = <<>>) =>
                 view = Some(resp.items[1])

Verified == pc = "done" \/ err \in {"IntegrityMismatch", "ShasumMismatch"}

\* Whether an SRI token is the digest of data under one of the three
\* supported algorithms.
TokenMatches(token, data) ==
    /\ token.algo \in {"sha256", "sha384", "sha512"}
    /\ token.value_b64 = B64(Digest(token.algo, data))

\* C6: the fetched file is verified with one scheme: the integrity token if
\* the record has one (the shasum is then not looked at, whether the token
\* matches or not), else the shasum if the record has one, else nothing and
\* the file is accepted.
C6_OneScheme ==
    Verified =>
        LET v == view[1]
        IN IF v.integrity # <<>>
           THEN /\ consulted = {"integrity"}
                /\ IF TokenMatches(v.integrity[1], file.data)
                   THEN pc = "done" ELSE err = "IntegrityMismatch"
           ELSE IF v.shasum # <<>>
           THEN /\ consulted = {"shasum"}
                /\ IF v.shasum[1] = Hex(Digest("sha1", file.data))
                   THEN pc = "done" ELSE err = "ShasumMismatch"
           ELSE consulted = {} /\ pc = "done"

\* The token does not match and the shasum does: integrity mismatch.
C6_Witness ==
    /\ err = "IntegrityMismatch"
    /\ view[1].shasum = Some(Hex(Digest("sha1", file.data)))

\* C7: when download ends with an integrity or shasum mismatch, no file is
\* left at the destination, and need_update does not report it up to date.
C7_MismatchLeavesNoFile ==
    err \in {"IntegrityMismatch", "ShasumMismatch"} =>
        /\ ~file.exists
        /\ need_upd # "False"

\* C8: once wget has returned, a missing file is a fetch error, an empty
\* file is removed and is a fetch error, and the verification is only
\* reached with an existing non-empty file.
C8_PostConditions ==
    (atreturn # <<>> /\ pc # "post") =>
        LET f == atreturn[1]
        IN /\ ~f.exists => (pc = "failed" /\ err = "FileMissing")
           /\ (f.exists /\ Len(f.data) = 0) =>
                (pc = "failed" /\ err = "EmptyArtifact" /\ ~file.exists)
           /\ (pc = "verify" \/ Verified \/ consulted # {}) =>
                (f.exists /\ Len(f.data) > 0 /\ file = f)

\* wget returned an empty file: it was removed and the download failed.
C8_Witness ==
    /\ atreturn # <<>>
    /\ atreturn[1].exists
    /\ Len(atreturn[1].data) = 0
    /\ err = "EmptyArtifact"
    /\ ~file.exists

\* C9: every network command of download comes right after a passed
\* network-access check for that command; when network access is forbidden
\* no network command is run, the destination is untouched and the download
\* fails with the network-access error.
C9_CheckedFirst ==
    /\ \A i \in NetCmds :
         i > 1 /\ netlog[i - 1] = Check(netlog[i].what)
    /\ nonet =>
         /\ NetCmds = {}
         /\ file = NoFile
         /\ pc \notin {"idle", "npm_check"} =>
              (pc = "failed" /\ err = "NetworkAccess")

\* Network access is forbidden and download has failed on the first check.
C9_Witness ==
    /\ nonet
    /\ pc = "failed"
    /\ err = "NetworkAccess"

\* The previous call started without a file, was interrupted by N bytes into
\* a tarball of more than N bytes, and this call's wget, for the same
\* tarball, has returned.
ResumedAfterInterrupt ==
    /\ prev # <<>>
    /\ xfer # <<>>
    /\ prev[1].state = "interrupted"
    /\ ~prev[1].existed
    /\ prev[1].got < Len(prev[1].tarball)
    /\ xfer[1].tarball = prev[1].tarball
    /\ xfer[1].state = "complete"

\* C10: wget is run in resume mode exactly when a file exists at the
\* destination; and when a first download was interrupted after N of T > N
\* bytes, the second one starts at offset N, the two transfer T bytes in
\* all, and the file wget leaves is the whole tarball.
C10_Resume ==
    /\ xfer # <<>> => (xfer[1].cont <=> xfer[1].existed)
    /\ ResumedAfterInterrupt =>
         /\ xfer[1].offset = prev[1].got
         /\ prev[1].got + xfer[1].got = Len(xfer[1].tarball)
         /\ atreturn[1].data = xfer[1].tarball

\* One byte of two was written before the interruption; the second call
\* got the other one.
C10_Witness ==
    /\ ResumedAfterInterrupt
    /\ prev[1].got = 1
    /\ xfer[1].cont
    /\ xfer[1].offset = 1
    /\ pc = "done"

----------------------------------------------------------------------------
(* Claims about fetch_dependencies and unpack_dependencies *)

\* C11 (as amended): within one call the handler steps come node by node in
\* visit order, each node's steps complete and in the handler's order
\* before the next node's first step: resolve, fetch, verify in
\* fetch_dependencies; cache, extract in unpack_dependencies, whose handler
\* resolves, fetches and verifies nothing.
C11_NodeByNode ==
    LET steps == IF job[1] = "fetch" THEN <<"resolve", "fetch", "verify">>
                 ELSE <<"cache", "extract">>
        n == Len(steps)
    IN /\ \A k \in 1..Len(events) :
            /\ ((k - 1) \div n) + 1 <= Len(visits)
            /\ events[k] = [step |-> steps[((k - 1) % n) + 1],
                            pos |-> visits[((k - 1) \div n) + 1].pos]
       /\ Len(visits) > 0 => Len(events) >= n * (Len(visits) - 1)

C11_Witness ==
    /\ wpc = "done"
    /\ job = <<"unpack">>
    /\ Len(visits) >= 2
    /\ Len(events) = 2 * Len(visits)

\* C11 (as stated): a node is cached or extracted only after the same
\* handler resolved, fetched and verified it.
C11_VerifiedInHandler ==
    \A k \in 1..Len(events) :
        events[k].step \in {"cache", "extract"} =>
            \E j \in 1..(k - 1) :
                events[j] = [step |-> "verify", pos |-> events[k].pos]

\* C12: once a step of a handler has failed the run is over at that node:
\* the exception has left every walk_deps activation, the failing node is
\* the last one visited, every node before it was handled completely, the
\* failing node's steps stop before the failing one, and no later node is
\* fetched, cached or extracted.
C12_AbortsAtNode ==
    (merr # <<>> /\ merr[1].step # "parse") =>
        LET steps == IF job[1] = "fetch" THEN <<"resolve", "fetch", "verify">>
                     ELSE <<"cache", "extract">>
            failed == CHOOSE i \in 1..Len(steps) : steps[i] = merr[1].step
        IN /\ wpc = "raised"
           /\ stack = <<>>
           /\ hstep = 0
           /\ cur # <<>>
           /\ visits # <<>>
           /\ Last(visits) = cur[1]
           /\ Len(events) = Len(steps) * (Len(visits) - 1) + (failed - 1)
           /\ \A k \in 1..Len(events) :
                \E i \in 1..Len(visits) : events[k].pos = visits[i].pos
           /\ ~ ENABLED MatNext

C12_Witness ==
    /\ merr # <<>>
    /\ merr[1].step = "extract"
    /\ Len(visits) = 2
    /\ Cardinality(Positions(shrinkwrap)) = 3

\* The exception the same step would raise at the node at position p.
ErrorAt(step, p) ==
    LET node == NodeAt(shrinkwrap, p)
    IN step_error(step, node.name, node.version, NamesAlong(shrinkwrap, p))

\* C13 (as amended): the exception of a failing resolve, fetch or verify
\* step carries the failing package's url (registry, name, version), that
\* of a failing cache step the tarball of that package, and neither carries
\* anything of the node's deptree; only the extraction is run in a
\* directory built from the deptree.
C13_IdentifiesPackageOnly ==
    (merr # <<>> /\ merr[1].step # "parse") =>
        LET node == cur[1]
            url == [scheme |-> "npm", host |-> npm_registry.host,
                    name |-> node.name, version |-> node.version]
            tarball == <<"DL_DIR", "npm", url.host,
                         <<node.name, "-", node.version, ".tgz">>>>
        IN /\ merr[1].step \in {"resolve", "fetch", "verify"} =>
                merr[1] = [step |-> merr[1].step, url |-> <<url>>,
                           cmd |-> <<>>, workdir |-> <<>>]
           /\ merr[1].step = "cache" =>
                merr[1] = [step |-> "cache", url |-> <<>>,
                           cmd |-> <<tarball>>, workdir |-> <<>>]
           /\ merr[1].step = "extract" =>
                /\ merr[1].cmd = <<tarball>>
                /\ merr[1].url = <<>>

C13_Witness ==
    /\ merr # <<>>
    /\ merr[1].step = "verify"
    /\ \E p \in Positions(shrinkwrap) :
        /\ p # cur[1].pos
        /\ NodeAt(shrinkwrap, p).name = cur[1].name
        /\ NodeAt(shrinkwrap, p).version = cur[1].version

\* C13 (as stated): the exception tells the failing node from every other
\* node of the tree, also from one with the same name and version.
C13_PathAnnotated ==
    (merr # <<>> /\ merr[1].step # "parse") =>
        \A p \in Positions(shrinkwrap) \ {cur[1].pos} :
            ErrorAt(merr[1].step, p) # merr[1]

\* C14: when a call of unpack_dependencies has returned, NPM_CACHE_DIR holds
\* exactly the tarballs of the lockfile's nodes and ${S}/node_modules
\* exactly one extracted tarball per node, whatever the two directories held
\* before the call (what an earlier build left, or what an earlier call of
\* unpack_dependencies built); and nothing is cached or extracted before
\* the two directories were removed.
C14_RebuiltFromLockfile ==
    /\ (job[1] = "unpack" /\ events # <<>>) => wiped
    /\ (job[1] = "unpack" /\ wpc = "done") =>
        /\ cache =
            {<<"DL_DIR", "npm", npm_registry.host,
               <<NodeAt(shrinkwrap, p).name, "-",
                 NodeAt(shrinkwrap, p).version, ".tgz">>>> :
                p \in Positions(shrinkwrap)}
        /\ {m.path : m \in modules} =
            {<<S>> \o [i \in 1..(2 * Len(p)) |->
                        IF i % 2 = 1 THEN "node_modules"
                        ELSE NamesAlong(shrinkwrap, p)[i \div 2]] :
                p \in Positions(shrinkwrap)}
        /\ Cardinality(modules) = Cardinality(Positions(shrinkwrap))

\* A call has returned on a lockfile of three nodes.
C14_Witness ==
    /\ job = <<"unpack">>
    /\ wpc = "done"
    /\ cache # {}
    /\ lockarg = "none"
    /\ Cardinality(Positions(shrinkwrap)) = 3

\* C15: every extraction of unpack_dependencies puts the tarball of the
\* node at pathFromRoot [n1, ..., nk] into S/node_modules/n1/.../
\* node_modules/nk, and the nodes extracted so far lie in pairwise
\* distinct directories.
C15_NestedLayout ==
    (job[1] = "unpack" /\ wiped) =>
        LET done == {k \in 1..Len(events) : events[k].step = "extract"}
            dir(p) == <<S>> \o [i \in 1..(2 * Len(p)) |->
                        IF i % 2 = 1 THEN "node_modules"
                        ELSE NamesAlong(shrinkwrap, p)[i \div 2]]
        IN /\ \A k \in done :
                [path |-> dir(events[k].pos),
                 tarball |-> <<"DL_DIR", "npm", npm_registry.host,
                    <<NodeAt(shrinkwrap, events[k].pos).name, "-",
                      NodeAt(shrinkwrap, events[k].pos).version, ".tgz">>>>]
                    \in modules
           /\ Cardinality({m.path : m \in modules}) = Cardinality(done)

\* B below A and B at the top are both extracted.
C15_Witness ==
    /\ job[1] = "unpack"
    /\ wpc = "done"
    /\ \E m1, m2 \in modules :
        /\ m1.path = <<S, "node_modules", "A", "node_modules", "B">>
        /\ m2.path = <<S, "node_modules", "B">>

\* C16: with no shrinkwrap_file argument, the lockfile parsed is the one of
\* the source tree if it exists, else the one NPM_SHRINKWRAP names if that
\* exists, else (also with NPM_SHRINKWRAP unset) none is parsed and the
\* call ends in the fatal error "No mandatory NPM_SHRINKWRAP file found".
C16_OrderedFallback ==
    (lockarg = "none" /\ wpc # "idle") =>
        IF srcfile
        THEN chosen = "src" /\ (merr # <<>> => merr[1].step # "parse")
        ELSE IF extfile = "exists"
        THEN chosen = "ext" /\ (merr # <<>> => merr[1].step # "parse")
        ELSE /\ chosen = None
             /\ visits = <<>>
             /\ merr = <<[step |-> "parse", url |-> <<>>,
                          cmd |-> <<"NoLockfile">>, workdir |-> <<>>]>>

----------------------------------------------------------------------------
(* Claims about Npm._run_npm_view's errors *)

\* C17: when npm view prints nothing, _run_npm_view raises the invalid-view
\* error; when it prints an object with an "error" field, it raises the
\* registry error whose message is that field's summary; in both cases no
\* record is returned and download builds and runs no transfer.
C17_ViewErrors ==
    view_string # <<>> =>
        LET resp == view_string[1]
        IN /\ resp.kind = "empty" =>
                /\ pc = "failed"
                /\ err = "InvalidView"
                /\ view = <<>>
                /\ xfer = <<>>
                /\ ~WgetRan
                /\ file = atstart
           /\ (resp.kind = "object" /\ resp.error # <<>>) =>
                /\ pc = "failed"
                /\ err = "RegistryError"
                /\ errmsg = resp.error[1].summary
                /\ view = <<>>
                /\ xfer = <<>>
                /\ ~WgetRan
                /\ file = atstart

C17_Witness ==
    /\ pc = "failed"
    /\ err = "RegistryError"
    /\ errmsg = <<"Not found">>

----------------------------------------------------------------------------
(* Claims about Npm.urldata_init *)

\* The pieces of s between the occurrences of character c.
RECURSIVE Split(_, _)
Split(s, c) ==
    IF \A i \in 1..Len(s) : s[i] # c THEN <<s>>
    ELSE LET i == CHOOSE k \in 1..Len(s) :
                    s[k] = c /\ \A j \in 1..(k - 1) : s[j] # c
         IN <<SubSeq(s, 1, i - 1)>> \o Split(SubSeq(s, i + 1, Len(s)), c)

\* The grammar of semver.org 2.0.0: numeric, alphanumeric and build
\* identifiers.
NumericId(x) ==
    /\ x # <<>>
    /\ \A i \in 1..Len(x) : x[i] \in Digit
    /\ Len(x) > 1 => x[1] # "0"

AlnumId(x) ==
    /\ x # <<>>
    /\ \A i \in 1..Len(x) : x[i] \in Digit \cup Letter \cup {"-"}
    /\ \E i \in 1..Len(x) : x[i] \notin Digit

BuildId(x) ==
    /\ x # <<>>
    /\ \A i \in 1..Len(x) : x[i] \in Digit \cup Letter \cup {"-"}

\* <core> | <core>-<pre-release> | <core>+<build> | <core>-<pre>+<build>
SemVer(v) ==
    LET byplus == Split(v, "+")
        head == byplus[1]
        bydash == Split(head, "-")
        core == Split(bydash[1], ".")
        pre == Split(SubSeq(head, Len(bydash[1]) + 2, Len(head)), ".")
        build == Split(SubSeq(v, Len(head) + 2, Len(v)), ".")
    IN /\ Len(core) = 3
       /\ \A i \in 1..3 : NumericId(core[i])
       /\ Len(bydash) > 1 =>
            \A i \in 1..Len(pre) : NumericId(pre[i]) \/ AlnumId(pre[i])
       /\ Len(byplus) > 1 =>
            \A i \in 1..Len(build) : BuildId(build[i])

----------------------------------------------------------------------------
(* Claims about the extraction *)

\* C20: the extraction puts every member <top>/<rest> of the archive,
\* whatever <top> is, at <prefix>/<rest> (npm/<rest> for Npm.unpack, <rest>
\* for unpack_dependency) with its content, and nothing else; so the
\* archive {package/a.txt: x} gives exactly npm/a.txt: x under Npm.unpack.
C20_TopDirectoryRewritten ==
    upc = "done" =>
        /\ \A n \in DOMAIN archive :
              Len(n) >= 2 =>
                 LET t == (IF site = "unpack" THEN <<"npm">> ELSE <<>>)
                          \o Tail(n)
                 IN t \in DOMAIN workdir /\ workdir[t] = archive[n]
        /\ Cardinality(DOMAIN workdir) = Cardinality(DOMAIN archive)

----------------------------------------------------------------------------
(* Claims about two fetches sharing the datastore *)

Outcome(e, f, w, o) == [err |-> e, file |-> f, warned |-> w, out |-> o]

\* What the fetch of request rq gives when it is the only one: the error
\* raised (None if none), the file at its localpath, whether it warned, and
\* what it extracted.
RunAlone(rq, answers) ==
    LET i == urldata_init(
               FetchData(rq.host, [name |-> Some(rq.name),
                                   version |-> Some(rq.version)]),
               Spell(rq.version),
               [scheme |-> "http", host |-> "registry.npmjs.org"])
        r == parse_view(answers[rq.host])
        chk == version_check(rq.version, r.view[1])
        f == [exists |-> TRUE, data |-> r.view[1].tarball]
        c == post_check(f)
        v == verify(r.view[1], f.data)
    IN IF i.err # None THEN Outcome(i.err, NoFile, FALSE, <<>>)
       ELSE IF r.err # None THEN Outcome(r.err, NoFile, FALSE, <<>>)
       ELSE IF chk = "error"
       THEN Outcome("InvalidVersion", NoFile, FALSE, <<>>)
       ELSE IF c.err # None THEN Outcome(c.err, c.file, chk = "warn", <<>>)
       ELSE IF v.err # None THEN Outcome(v.err, f, chk = "warn", <<>>)
       ELSE Outcome(None, f, chk = "warn",
                    Some(extract(members(f.data), "unpack")))

Ended(p) ==
    Outcome(pst[p].err, files[PathOf(preq[p])], pst[p].warned, pst[p].out)

\* C19 (as amended): two fetches for distinct destination paths that share
\* d, interleaved in any order, each end with the error, the destination
\* file, the warning and the extracted tree they end with when run alone;
\* the one thing they share and write is NPM_REGISTRY in d, which holds the
\* registry of the request whose urldata_init succeeded last.
C19_OwnResultSharedRegistry ==
    /\ \A p \in Procs :
          pst[p].pc \in {"done", "failed"} => Ended(p) = RunAlone(preq[p], env)
    /\ npm_registry =
          IF lastinit = 0
          THEN [scheme |-> "http", host |-> "registry.npmjs.org"]
          ELSE [scheme |-> "http", host |-> preq[lastinit].host]

\* Both are done, against different registries that answer differently.
C19_Witness ==
    /\ \A p \in Procs : pst[p].pc = "done"
    /\ preq[1].host # preq[2].host
    /\ env[preq[1].host] # env[preq[2].host]
    /\ lastinit = 1

\* C19 (as stated): the fetch path writes no shared state, so each fetch
\* that is done has left d, too, as it leaves it when run alone: with
\* NPM_REGISTRY naming its own registry.
C19_NoSharedState ==
    \A p \in Procs :
        pst[p].pc = "done" =>
            /\ Ended(p) = RunAlone(preq[p], env)
            /\ npm_registry = [scheme |-> "http", host |-> preq[p].host]

----------------------------------------------------------------------------
(* Claims about the registry of the dependency fetches *)

\* C21: no step of fetch_dependencies changes NPM_REGISTRY, and the
\* registry of the Fetch that handle_dependency builds for a node (the one
\* npm view and the transfer are run against) is the NPM_REGISTRY found
\* when the handler was entered, for an http and for an https value alike.
C21_RegistryRoundTrip ==
    [][(job # <<>> /\ job[1] = "fetch") =>
          /\ npm_registry' = npm_registry
          /\ (cur' # cur /\ cur' # <<>>) => cur'[1].registry = npm_registry
      ]_vars

----------------------------------------------------------------------------
(***************************************************************************)
(* recipetool: AngularPreRecipeHandler, NpmRecipeHandler and               *)
(* AngularPostRecipeHandler, run by recipetool create on one source tree   *)
(***************************************************************************)

\* The priorities the handlers are registered with.
AngularPrePriority == 65

NpmPriority == 60

AngularPostPriority == 55

\* register_recipe_handlers of create_angular.py
angular_register(hs) ==
    hs \o <<[handler |-> "AngularPre", priority |-> AngularPrePriority],
            [handler |-> "AngularPost", priority |-> AngularPostPriority]>>

\* register_recipe_handlers of create_npm.py
npm_register(hs) == Append(hs, [handler |-> "Npm", priority |-> NpmPriority])

\* recipetool create runs the handlers by descending priority.
RECURSIVE ByPriority(_)
ByPriority(hs) ==
    IF hs = <<>> THEN <<>>
    ELSE LET i == CHOOSE i \in 1..Len(hs) :
                    \A j \in 1..Len(hs) : hs[j].priority <= hs[i].priority
         IN <<hs[i]>> \o ByPriority(SubSeq(hs, 1, i - 1)
                                    \o SubSeq(hs, i + 1, Len(hs)))

\* x in list
InList(x, list) == \E i \in 1..Len(list) : list[i] = x

\* list.remove(x): the first occurrence goes (x is in the list where called)
list_remove(list, x) ==
    LET i == CHOOSE i \in 1..Len(list) :
                 list[i] = x /\ \A j \in 1..(i - 1) : list[j] # x
    IN SubSeq(list, 1, i - 1) \o SubSeq(list, i + 1, Len(list))

\* dict.get(k): <<the value>>, <<>> for None
get(dict, k) == IF k \in DOMAIN dict THEN Some(dict[k]) ELSE <<>>

\* dict[k] = v
setitem(dict, k, v) ==
    [x \in DOMAIN dict \cup {k} |-> IF x = k THEN v ELSE dict[x]]

\* dict.pop(k, None)
KeepValue(dict, k) == dict
pop(dict, k) == [x \in DOMAIN dict \ {k} |-> dict[x]]

\* RecipeHandler.checkfiles(srctree, names): the files of those names at the
\* top of the tree
checkfiles(tree, names) == tree.files \cap names

\* NpmRecipeHandler._name_from_npm(npm_name), on the characters of the name
Lower(c) == IF c = "A" THEN "a" ELSE IF c = "N" THEN "n" ELSE c

LowerLetters == {"a", "g", "n"}

RECURSIVE strip(_, _)
strip(s, c) ==
    IF s = <<>> THEN s
    ELSE IF Head(s) = c THEN strip(Tail(s), c)
    ELSE IF s[Len(s)] = c THEN strip(SubSeq(s, 1, Len(s) - 1), c)
    ELSE s

name_from_npm(npm_name) ==
    LET slashed == [i \in 1..Len(npm_name) |->
                      IF npm_name[i] = "/" THEN "-" ELSE npm_name[i]]
        lowered == [i \in 1..Len(slashed) |-> Lower(slashed[i])]
        kept == SelectSeq(lowered, LAMBDA c : c \in LowerLetters \cup {"-"})
    IN strip(kept, "-")

\* The words of the SRC_URI lines of lines_before, in order.
RECURSIVE SrcUris(_)
SrcUris(lines) ==
    IF lines = <<>> THEN <<>>
    ELSE (IF Head(lines).name = "SRC_URI" THEN Head(lines).value ELSE <<>>)
         \o SrcUris(Tail(lines))

\* uri.split(";")[0], a uri being the list of its pieces
RECURSIVE BeforeSemicolon(_)
BeforeSemicolon(uri) ==
    IF uri = <<>> \/ Head(uri) = ";" THEN <<>>
    ELSE <<Head(uri)>> \o BeforeSemicolon(Tail(uri))

\* handle_metadata of _get_registry over the uris: the last npm:// uri gives
\* registry_fetch, its scheme rewritten to http://
RECURSIVE registry_fetch(_)
registry_fetch(uris) ==
    IF uris = <<>> THEN <<>>
    ELSE LET uri == uris[Len(uris)]
         IN IF uri # <<>> /\ uri[1] = "npm://"
            THEN Some(<<"http://">> \o Tail(BeforeSemicolon(uri)))
            ELSE registry_fetch(SubSeq(uris, 1, Len(uris) - 1))

\* NpmRecipeHandler._get_registry(extravalues, lines_before)
get_registry(ev, lines) ==
    LET registry_option == get(ev, "NPM_REGISTRY")
        fetched == registry_fetch(SrcUris(lines))
    IN IF fetched # <<>>
       THEN [registry |-> fetched[1],
             extravalues |-> IF registry_option # <<>>
                             THEN pop(ev, "NPM_REGISTRY") ELSE ev]
       ELSE IF registry_option # <<>>
       THEN [registry |-> registry_option[1], extravalues |-> ev]
       ELSE [registry |-> <<"http://", "registry.npmjs.org">>,
             extravalues |-> ev]

\* What a process call gives back: its arguments as it leaves them, what it
\* returned, the npm commands it ran, and <<the exception>> if it raised.
Returns(a, ret) == [args |-> a, ret |-> ret, cmds |-> <<>>, exit |-> <<>>]

Raises(a, run, exc) == [args |-> a, ret |-> FALSE, cmds |-> run, exit |-> <<exc>>]

\* _check_angular / _ensure_npm: the tool is in the native sysroot, or is
\* built into it, or sys.exit(14)
ToolOutcomes == {"in sysroot", "built", "not built", "no provider"}

ensure(tool) == tool \in {"in sysroot", "built"}

\* AngularPreRecipeHandler.process
AngularPre_process(a) ==
    IF InList("buildsystem", a.handled) THEN Returns(a, FALSE)
    ELSE IF checkfiles(a.srctree, {"angular.json"}) = {} THEN Returns(a, FALSE)
    ELSE Returns([a EXCEPT !.extravalues = setitem(@, "NPM_INSTALL_DEV", 1)],
                 TRUE)

\* _run_npm_install(d, development)
npm_install(registry, development) ==
    [cmd |-> "npm install", production |-> development = <<>>,
     development |-> FALSE, registry |-> registry]

\* _run_npm_shrinkwrap(d, development)
npm_shrinkwrap(registry, development) ==
    [cmd |-> "npm shrinkwrap", production |-> FALSE,
     development |-> development # <<>>, registry |-> registry]

NpmEnvs == [nodejs : ToolOutcomes, install : BOOLEAN, shrinkwrap : BOOLEAN]

\* NpmRecipeHandler.process, e the outcomes of what it runs
Npm_process(a, e) ==
    IF InList("buildsystem", a.handled) THEN Returns(a, FALSE)
    ELSE IF checkfiles(a.srctree, {"package.json"}) = {} THEN Returns(a, FALSE)
    ELSE LET data == a.srctree.data IN
      IF ~({"name", "version"} \subseteq DOMAIN data) THEN Returns(a, FALSE)
      ELSE
        LET development == get(a.extravalues, "NPM_INSTALL_DEV")
            g == get_registry(a.extravalues, a.lines_before)
            a1 == [a EXCEPT !.extravalues = g.extravalues]
            \* _generate_shrinkwrap: _ensure_npm, _run_npm_install
            a2 == [a1 EXCEPT !.srctree.files = @ \ {"node_modules"}]
            install == <<npm_install(g.registry, development)>>
            a3 == [a2 EXCEPT !.srctree.files = @ \cup {"node_modules"}]
            shrink == Append(install, npm_shrinkwrap(g.registry, development))
            \* the shrinkwrap file is generated, moved away and recorded
            a4 == [a3 EXCEPT
                     !.srctree.files = @ \ {"node_modules"},
                     !.extravalues =
                         setitem(@, "extrafiles",
                                 setitem(IF "extrafiles" \in DOMAIN @
                                         THEN @["extrafiles"] ELSE <<>>,
                                         "npm-shrinkwrap.json",
                                         "tmp/npm-shrinkwrap.json")),
                     !.lines_before =
                         Append(@, [name |-> "NPM_SHRINKWRAP",
                                    value |-> <<<<"${THISDIR}/${BPN}/",
                                                  "npm-shrinkwrap.json">>>>])]
            finish(b, run) ==
                LET v1 == setitem(setitem(b.extravalues, "PN",
                                          name_from_npm(data["name"])),
                                  "PV", data["version"])
                    v2 == IF "description" \in DOMAIN data
                          THEN setitem(v1, "SUMMARY", data["description"])
                          ELSE v1
                    v3 == IF "homepage" \in DOMAIN data
                          THEN setitem(v2, "HOMEPAGE", data["homepage"])
                          ELSE v2
                IN [args |-> [b EXCEPT !.extravalues = v3,
                                       !.classes = Append(@, "npm"),
                                       !.handled = Append(@, "buildsystem")],
                    ret |-> TRUE, cmds |-> run, exit |-> <<>>]
        IN IF ~ensure(e.nodejs) THEN Raises(a1, <<>>, "SystemExit 14")
           ELSE IF ~e.install THEN Raises(a2, install, "FetchError")
           ELSE IF "npm-shrinkwrap.json" \in a3.srctree.files
                THEN finish(a3, install)
           ELSE IF ~e.shrinkwrap THEN Raises(a3, shrink, "FetchError")
           ELSE finish(a4, shrink)

\* AngularPostRecipeHandler.process, ng the outcome of _check_angular
AngularPost_process(a, ng) ==
    IF ~InList("buildsystem", a.handled) \/ ~InList("npm", a.classes)
    THEN Returns(a, FALSE)
    ELSE IF checkfiles(a.srctree, {"angular.json"}) = {} THEN Returns(a, FALSE)
    ELSE IF ~ensure(ng) THEN Raises(a, <<>>, "SystemExit 14")
    ELSE Returns([a EXCEPT
                    !.classes = Append(list_remove(@, "npm"), "angular"),
                    !.extravalues = pop(@, "NPM_INSTALL_DEV")],
                 TRUE)

\* The arguments the handlers share.
Args ==
    [srctree |-> srctree, classes |-> classes, lines_before |-> lines_before,
     handled |-> handled, extravalues |-> extravalues]

\* The handler whose turn it is.
Turn(h) ==
    /\ rexit = <<>>
    /\ hidx \in 1..Len(handlers)
    /\ ByPriority(handlers)[hidx].handler = h

\* The call of h.process has given r: the lists and the dictionary are
\* left as the call left them, and the next handler is up.
Ran(h, r) ==
    /\ srctree' = r.args.srctree
    /\ classes' = r.args.classes
    /\ lines_before' = r.args.lines_before
    /\ handled' = r.args.handled
    /\ extravalues' = r.args.extravalues
    /\ cmds' = cmds \o r.cmds
    /\ returned' = Append(returned, [handler |-> h, ret |-> r.ret])
    /\ rexit' = r.exit
    /\ hidx' = hidx + 1
    /\ UNCHANGED <<handlers, start>>
    /\ UNCHANGED <<matvars, initvars, unpvars, pairvars>>
    /\ UNCHANGED walkvars
    /\ UNCHANGED dlvars

AngularPreProcess ==
    /\ Turn("AngularPre")
    /\ Ran("AngularPre", AngularPre_process(Args))

NpmProcess ==
    /\ Turn("Npm")
    /\ \E e \in NpmEnvs : Ran("Npm", Npm_process(Args, e))

AngularPostProcess ==
    /\ Turn("AngularPost")
    /\ \E ng \in ToolOutcomes : Ran("AngularPost", AngularPost_process(Args, ng))

\* The package.json files: none, and some with and without name and version.
PackageNames == {<<"@", "N", "g", "/", "A", "1">>, <<"a", "/">>}

PackageData ==
    {<<>>}
    \cup {[k \in {"name"} |-> n] : n \in PackageNames}
    \cup {[k \in {"version"} |-> "1.0.0"]}
    \cup {[k \in {"name", "version"} |->
             IF k = "name" THEN n ELSE "1.0.0"] : n \in PackageNames}
    \cup {[k \in {"name", "version", "description", "homepage"} |->
             IF k = "name" THEN <<"a", "/">>
             ELSE IF k = "version" THEN "1.0.0"
             ELSE IF k = "description" THEN "An app" ELSE "http://a.example"]}

SourceTrees ==
    {[files |-> fs \cup {"package.json"}, data |-> data] :
        fs \in SUBSET {"angular.json", "npm-shrinkwrap.json"},
        data \in PackageData}
    \cup {[files |-> fs, data |-> <<>>] :
            fs \in SUBSET {"angular.json", "npm-shrinkwrap.json"}}

\* lines_before: no SRC_URI line, or one for a git or an npm url
LinesBefore ==
    {<<>>,
     <<[name |-> "SRC_URI", value |-> <<<<"git://", "git.example.org/a">>>>]>>,
     <<[name |-> "SRC_URI",
        value |-> <<<<"npm://", "registry.example.org", ";",
                      "name=a", ";", "version=1.0.0">>>>]>>}

\* extravalues as the options --npm-dev and --npm-registry leave it
OptionValues ==
    {[k \in ks |-> IF k = "NPM_INSTALL_DEV" THEN 1
                   ELSE <<"https://", "npm.example.com">>] :
        ks \in SUBSET {"NPM_INSTALL_DEV", "NPM_REGISTRY"}}

\* The two plugins register in either order; with --binary the build system
\* is handled before any handler runs.
RecipeInit ==
    /\ handlers \in {angular_register(npm_register(<<>>)),
                     npm_register(angular_register(<<>>))}
    /\ hidx = 1
    /\ srctree \in SourceTrees
    /\ \E binary \in BOOLEAN :
          /\ classes = IF binary THEN <<"bin_package">> ELSE <<>>
          /\ handled = IF binary THEN <<"buildsystem">> ELSE <<>>
    /\ lines_before \in LinesBefore
    /\ extravalues \in OptionValues
    /\ cmds = <<>>
    /\ returned = <<>>
    /\ rexit = <<>>
    /\ start = [handled |-> handled, classes |-> classes,
                extravalues |-> extravalues]
    /\ WalkIdle
    /\ shrinkwrap = <<>>
    /\ callback = "none"
    /\ ud = [name |-> "pkg", version |-> "1.0.0"]
    /\ nonet = FALSE
    /\ DownloadIdle
    /\ MatIdle
    /\ InitIdle
    /\ UnpackIdle
    /\ PairIdle

RecipeNext ==
    \/ AngularPreProcess
    \/ NpmProcess
    \/ AngularPostProcess

SpecRecipe == RecipeInit /\ [][RecipeNext]_vars

----------------------------------------------------------------------------
(***************************************************************************)
(* Claims about the recipe handlers                                        *)
(***************************************************************************)

\* Every handler has run and none cut the run short.
AllRan == rexit = <<>> /\ handlers # <<>> /\ hidx > Len(handlers)

\* An Angular tree with a package.json that has a name and a version, and no
\* build system handled before the handlers.
AngularPackage ==
    /\ {"angular.json", "package.json"} \subseteq srctree.files
    /\ {"name", "version"} \subseteq DOMAIN srctree.data
    /\ ~InList("buildsystem", start.handled)

\* It is the turn of an Angular handler on a tree without angular.json.
AngularTurnElsewhere ==
    /\ hidx \in 1..Len(handlers)
    /\ ByPriority(handlers)[hidx].handler \in {"AngularPre", "AngularPost"}
    /\ "angular.json" \notin srctree.files

\* C22: when the three handlers have run by descending priority on an
\* Angular tree whose package.json has a name and a version, with no build
\* system handled before, npm install ran without --production and npm
\* shrinkwrap (if it ran) with --development, "buildsystem" is handled,
\* classes holds "angular" and not "npm", and NPM_INSTALL_DEV is not in
\* extravalues; and on a tree without angular.json no call of an Angular
\* handler changes classes or extravalues.
C22_AngularOverNpm ==
    /\ [](AllRan /\ AngularPackage =>
            /\ cmds # <<>>
            /\ cmds[1].cmd = "npm install"
            /\ \A i \in 1..Len(cmds) :
                  /\ cmds[i].cmd = "npm install" => ~cmds[i].production
                  /\ cmds[i].cmd = "npm shrinkwrap" => cmds[i].development
            /\ InList("buildsystem", handled)
            /\ InList("angular", classes)
            /\ ~InList("npm", classes)
            /\ "NPM_INSTALL_DEV" \notin DOMAIN extravalues)
    /\ [][AngularTurnElsewhere =>
            classes' = classes /\ extravalues' = extravalues]_vars

\* The three handlers have run on such a tree, NPM_INSTALL_DEV not given as
\* an option, and the shrinkwrap file was generated.
C22_Witness ==
    /\ AllRan
    /\ AngularPackage
    /\ "NPM_INSTALL_DEV" \notin DOMAIN start.extravalues
    /\ Len(returned) = 3
    /\ \A i \in 1..3 : returned[i].ret
    /\ Len(cmds) = 2

====
